---- MODULE Spec2Model ----
(***************************************************************************)
(* Model of the accident-notification frontend (frontend/src/App.js):      *)
(* the payload normalizer FormPage.buildPayload and the submission         *)
(* handlers of SkanPage, FormPage and WyjasnieniaPoszkodowanegoFormPage.   *)
(* FormPage.deepMerge and the witness controls of the EWYP form are        *)
(* modelled as well; the archive of generated documents, which the         *)
(* frontend only reads the result of, follows the design document.         *)
(* Further parts: the start script tunnel-urls.sh, the folder browser      *)
(* PracownikPage, the updateField editors of both forms, and the mounting  *)
(* and unmounting of the EWYP form while a submission is in flight.        *)
(*                                                                         *)
(* JSON values are tagged records:                                         *)
(*   [t |-> "undefined"], [t |-> "null"], [t |-> "string", s |-> _],       *)
(*   [t |-> "boolean", b |-> _], [t |-> "number", n |-> _],                *)
(*   [t |-> "object", o |-> function],                                     *)
(*   [t |-> "array", a |-> sequence], and [t |-> "throw", e |-> name] for  *)
(*   an exception that leaves the function instead of a value.             *)
(*                                                                         *)
(* The EWYP form tree is modelled with the keys that buildPayload names    *)
(* and one representative of every other kind of entity: each address      *)
(* block keeps one required field (ulica) and one optional field           *)
(* (numerLokalu), the victim keeps dokumentTozsamosci, the notifier keeps  *)
(* jestPoszkodowanym and imie, a witness keeps imie, nazwisko and adres.   *)
(***************************************************************************)
EXTENDS Integers, Sequences, FiniteSets, TLC

\* ------------------------------------------------------------------ bounds
MaxWitnesses == 2
MaxUserActions == 2
MaxEdits == 2
MaxSubmissions == 2

\* ------------------------------------------------------------- JSON values
Undefined == [t |-> "undefined"]
Null == [t |-> "null"]
Str(s) == [t |-> "string", s |-> s]
Bool(b) == [t |-> "boolean", b |-> b]
Num(n) == [t |-> "number", n |-> n]
Obj(f) == [t |-> "object", o |-> f]
Arr(q) == [t |-> "array", a |-> q]
Throw(e) == [t |-> "throw", e |-> e]

IsThrow(v) == v.t = "throw"
IsNullish(v) == v.t \in {"undefined", "null"}

\* JavaScript truthiness (the conditions `x && ...`, `!x`)
Truthy(v) ==
  CASE v.t = "string" -> v.s # ""
    [] v.t = "boolean" -> v.b
    [] v.t = "number" -> v.n # 0
    [] v.t \in {"object", "array"} -> TRUE
    [] OTHER -> FALSE

\* property read v[k]: undefined when v has no such own property
Get(v, k) ==
  IF v.t = "object" /\ k \in DOMAIN v.o THEN v.o[k] ELSE Undefined

\* keys of an object value
Keys(v) == IF v.t = "object" THEN DOMAIN v.o ELSE {}

\* `delete v[k]`
Delete(v, k) ==
  IF v.t = "object" THEN Obj([x \in DOMAIN v.o \ {k} |-> v.o[x]]) ELSE v

\* `v[k] = w`
Put(v, k, w) ==
  IF v.t = "object"
    THEN Obj([x \in DOMAIN v.o \cup {k} |-> IF x = k THEN w ELSE v.o[x]])
    ELSE v

isObject(item) == item.t = "object"

\* JSON.parse(JSON.stringify(v)) for v # undefined: object members that are
\* undefined are dropped, array elements that are undefined become null
RECURSIVE jsonClone(_)
jsonClone(v) ==
  CASE v.t = "object" ->
         Obj([k \in {x \in DOMAIN v.o : v.o[x].t # "undefined"} |-> jsonClone(v.o[k])])
    [] v.t = "array" ->
         Arr([i \in DOMAIN v.a |->
               IF v.a[i].t = "undefined" THEN Null ELSE jsonClone(v.a[i])])
    [] OTHER -> v

\* ------------------------------------------------------ FormPage.buildPayload
RECURSIVE removeEmptyValues_keepEmptyParents(_)
removeEmptyValues_keepEmptyParents(obj) ==
  IF IsNullish(obj) THEN Undefined
  ELSE IF obj.t \notin {"object", "array"}
    THEN IF obj.t = "string" /\ obj.s = "" THEN Undefined ELSE obj
  ELSE IF obj.t = "array"
    THEN LET mapped == [i \in DOMAIN obj.a |-> removeEmptyValues_keepEmptyParents(obj.a[i])]
             filtered == SelectSeq(mapped, LAMBDA item : item # Undefined)
         IN  IF Len(filtered) > 0 THEN Arr(filtered) ELSE Undefined
  ELSE LET kept == {k \in DOMAIN obj.o :
                      removeEmptyValues_keepEmptyParents(obj.o[k]) # Undefined}
       IN  IF DOMAIN obj.o # {}
             THEN Obj([k \in kept |-> removeEmptyValues_keepEmptyParents(obj.o[k])])
             ELSE Undefined

\* removeEmptyValues with `!obj` for `obj === ''`: every falsy scalar is dropped
RECURSIVE removeEmptyValues_dropFalsy(_)
removeEmptyValues_dropFalsy(obj) ==
  IF IsNullish(obj) THEN Undefined
  ELSE IF obj.t \notin {"object", "array"}
    THEN IF ~Truthy(obj) THEN Undefined ELSE obj
  ELSE IF obj.t = "array"
    THEN LET mapped == [i \in DOMAIN obj.a |-> removeEmptyValues_dropFalsy(obj.a[i])]
             filtered == SelectSeq(mapped, LAMBDA item : item # Undefined)
         IN  IF Len(filtered) > 0 THEN Arr(filtered) ELSE Undefined
  ELSE LET kept == {k \in DOMAIN obj.o : removeEmptyValues_dropFalsy(obj.o[k]) # Undefined}
       IN  IF kept # {}
             THEN Obj([k \in kept |-> removeEmptyValues_dropFalsy(obj.o[k])])
             ELSE Undefined

RECURSIVE removeEmptyValues(_)
removeEmptyValues(obj) ==
  IF IsNullish(obj) THEN Undefined
  ELSE IF obj.t \notin {"object", "array"}
    THEN IF obj.t = "string" /\ obj.s = "" THEN Undefined ELSE obj
  ELSE IF obj.t = "array"
    THEN LET mapped == [i \in DOMAIN obj.a |-> removeEmptyValues(obj.a[i])]
             filtered == SelectSeq(mapped, LAMBDA item : item # Undefined)
         IN  IF Len(filtered) > 0 THEN Arr(filtered) ELSE Undefined
  ELSE LET kept == {k \in DOMAIN obj.o : removeEmptyValues(obj.o[k]) # Undefined}
       IN  IF kept # {}
             THEN Obj([k \in kept |-> removeEmptyValues(obj.o[k])])
             ELSE Undefined

NotifierAddressKeys ==
  { "adresZamieszkaniaOsobyKtoraZawiadamia",
    "adresOstatniegoMiejscaZamieszkaniaWPolsceLubPobytuOsobyKtoraZawiadamia",
    "adresDoKorespondencjiOsobyKtoraZawiadamia" }

VictimAddressKeys ==
  { "adresZamieszkaniaOsobyPoszkodowanej" }

\* if (payload.daneOsobyKtoraZawiadamia?.jestPoszkodowanym) { ... }
collapseNotifier_keepFields(payload) ==
  IF Truthy(Get(Get(payload, "daneOsobyKtoraZawiadamia"), "jestPoszkodowanym"))
    THEN Delete(Delete(Delete(payload,
           "adresZamieszkaniaOsobyKtoraZawiadamia"),
           "adresOstatniegoMiejscaZamieszkaniaWPolsceLubPobytuOsobyKtoraZawiadamia"),
           "adresDoKorespondencjiOsobyKtoraZawiadamia")
    ELSE payload

collapseNotifier_keepCorrespondence(payload) ==
  IF Truthy(Get(Get(payload, "daneOsobyKtoraZawiadamia"), "jestPoszkodowanym"))
    THEN Delete(Delete(
           Put(payload, "daneOsobyKtoraZawiadamia",
               Obj([k \in {"jestPoszkodowanym"} |-> Bool(TRUE)])),
           "adresZamieszkaniaOsobyKtoraZawiadamia"),
           "adresOstatniegoMiejscaZamieszkaniaWPolsceLubPobytuOsobyKtoraZawiadamia")
    ELSE payload

collapseNotifier(payload) ==
  IF Truthy(Get(Get(payload, "daneOsobyKtoraZawiadamia"), "jestPoszkodowanym"))
    THEN Delete(Delete(Delete(
           Put(payload, "daneOsobyKtoraZawiadamia",
               Obj([k \in {"jestPoszkodowanym"} |-> Bool(TRUE)])),
           "adresZamieszkaniaOsobyKtoraZawiadamia"),
           "adresOstatniegoMiejscaZamieszkaniaWPolsceLubPobytuOsobyKtoraZawiadamia"),
           "adresDoKorespondencjiOsobyKtoraZawiadamia")
    ELSE payload

\* (swiadek) => swiadek.imie && swiadek.nazwisko
witnessFilter_keepAll(swiadek) == TRUE

witnessFilter(swiadek) ==
  Truthy(Get(swiadek, "imie")) /\ Truthy(Get(swiadek, "nazwisko"))

\* if (payload.daneSwiadkowWypadku && Array.isArray(...)) { filter; delete if empty }
\* reading swiadek.imie of a null entry throws a TypeError
filterWitnesses(payload) ==
  LET list == Get(payload, "daneSwiadkowWypadku")
  IN  IF list.t # "array" THEN payload
      ELSE IF \E i \in DOMAIN list.a : IsNullish(list.a[i]) THEN Throw("TypeError")
      ELSE LET filtered == SelectSeq(list.a, witnessFilter)
           IN  IF Len(filtered) = 0
                 THEN Delete(payload, "daneSwiadkowWypadku")
                 ELSE Put(payload, "daneSwiadkowWypadku", Arr(filtered))

\* if (victim?.dokumentTozsamosci && !rodzaj && !seriaINumer) delete it
dropEmptyIdentityDocument(payload) ==
  LET victim == Get(payload, "daneOsobyPoszkodowanej")
      doc == Get(victim, "dokumentTozsamosci")
  IN  IF /\ Truthy(doc)
         /\ ~Truthy(Get(doc, "rodzaj"))
         /\ ~Truthy(Get(doc, "seriaINumer"))
        THEN Put(payload, "daneOsobyPoszkodowanej", Delete(victim, "dokumentTozsamosci"))
        ELSE payload

\* JSON.stringify(undefined) is undefined and JSON.parse(undefined) throws a
\* SyntaxError; `payload.daneOsobyKtoraZawiadamia` on a null payload throws a
\* TypeError
buildPayload(data) ==
  IF data.t = "undefined" THEN Throw("SyntaxError")
  ELSE IF data.t = "null" THEN Throw("TypeError")
  ELSE LET payload == jsonClone(data)
           afterNotifier == collapseNotifier(payload)
           afterWitnesses == filterWitnesses(afterNotifier)
       IN  IF IsThrow(afterWitnesses) THEN afterWitnesses
           ELSE removeEmptyValues(dropEmptyIdentityDocument(afterWitnesses))

\* the tree that `payload` holds once the rules that write to it in place
\* have run: the assignment and the deletes of the notifier rule, the
\* assignment of the filtered witness list (not reached when the filter
\* throws) and the delete of the empty identity document
payloadInPlace(payload) ==
  LET afterNotifier == collapseNotifier(payload)
      afterWitnesses == filterWitnesses(afterNotifier)
  IN  IF IsThrow(afterWitnesses) THEN afterNotifier
      ELSE dropEmptyIdentityDocument(afterWitnesses)

\* the caller's tree after buildPayload if payload were the caller's tree
dataAfterBuildPayload_sharedTree(data) ==
  IF IsNullish(data) THEN data ELSE payloadInPlace(data)

\* the caller's tree after buildPayload(data): payload is a deep copy, which
\* the in-place rules write to
dataAfterBuildPayload(data) == data

\* ------------------------------------------------- normalizer input trees
FieldValues == {"", "A"}
StreetValues == {"", " ", "A"}
FlagValues == {Bool(TRUE), Bool(FALSE), Null}

Address(ulica, numerLokalu) ==
  Obj([k \in {"ulica", "numerLokalu"} |->
        IF k = "ulica" THEN Str(ulica) ELSE Str(numerLokalu)])

WitnessEntry(imie, nazwisko, ulica) ==
  Obj([k \in {"imie", "nazwisko", "adres"} |->
        CASE k = "imie" -> Str(imie)
          [] k = "nazwisko" -> Str(nazwisko)
          [] OTHER -> Address(ulica, "")])

WitnessEntries ==
  { WitnessEntry(i, n, u) : i \in FieldValues, n \in FieldValues, u \in FieldValues }

WitnessLists ==
  UNION { [1..n -> WitnessEntries] : n \in 0..MaxWitnesses }

IdentityDocument(rodzaj, seriaINumer) ==
  Obj([k \in {"rodzaj", "seriaINumer"} |->
        IF k = "rodzaj" THEN Str(rodzaj) ELSE Str(seriaINumer)])

IdentityDocuments ==
  { IdentityDocument(r, s) : r \in FieldValues, s \in FieldValues }

\* witness lists used while the other sections vary: no slot, an untouched
\* slot, a filled slot
SlotLists ==
  { <<>>, <<WitnessEntry("", "", "")>>, <<WitnessEntry("A", "A", "")>> }

FormTree(doc, street, flat, flag, notifierName, a1, a2, a3, witnesses) ==
  Obj([k \in { "daneOsobyPoszkodowanej",
               "adresZamieszkaniaOsobyPoszkodowanej",
               "daneOsobyKtoraZawiadamia",
               "adresZamieszkaniaOsobyKtoraZawiadamia",
               "adresOstatniegoMiejscaZamieszkaniaWPolsceLubPobytuOsobyKtoraZawiadamia",
               "adresDoKorespondencjiOsobyKtoraZawiadamia",
               "daneSwiadkowWypadku" } |->
    CASE k = "daneOsobyPoszkodowanej" ->
           Obj([x \in {"dokumentTozsamosci"} |-> doc])
      [] k = "adresZamieszkaniaOsobyPoszkodowanej" -> Address(street, flat)
      [] k = "daneOsobyKtoraZawiadamia" ->
           Obj([x \in {"jestPoszkodowanym", "imie"} |->
                 IF x = "jestPoszkodowanym" THEN flag ELSE Str(notifierName)])
      [] k = "adresZamieszkaniaOsobyKtoraZawiadamia" -> Address(a1, "")
      [] k = "adresOstatniegoMiejscaZamieszkaniaWPolsceLubPobytuOsobyKtoraZawiadamia" ->
           Address(a2, "")
      [] k = "adresDoKorespondencjiOsobyKtoraZawiadamia" -> Address(a3, "")
      [] OTHER -> Arr(witnesses)])

\* every combination of the sections outside the witness list
SectionTrees ==
  { FormTree(doc, street, flat, flag, nn, a1, a2, a3, ws) :
      doc \in IdentityDocuments, street \in StreetValues, flat \in FieldValues,
      flag \in FlagValues, nn \in FieldValues,
      a1 \in FieldValues, a2 \in FieldValues, a3 \in FieldValues,
      ws \in SlotLists }

\* every witness list, on the victim data of initialFormData
WitnessTrees ==
  { FormTree(IdentityDocument("A", "A"), "A", "A", flag, "", "", "", "", ws) :
      flag \in FlagValues, ws \in WitnessLists }

InputTrees == SectionTrees \cup WitnessTrees

\* ---------------------------------------------------------------- deepMerge
\* `{ ...v }`: the own enumerable properties of v, which for an array are
\* its elements under their indices and for a string its characters
spread(v) ==
  CASE v.t = "object" -> v
    [] v.t = "array" ->
         Obj([k \in {ToString(i - 1) : i \in DOMAIN v.a} |->
               v.a[CHOOSE i \in DOMAIN v.a : ToString(i - 1) = k]])
    [] v.t = "string" ->
         Obj([k \in {ToString(i - 1) : i \in 1..Len(v.s)} |->
               Str(SubSeq(v.s, (CHOOSE i \in 1..Len(v.s) : ToString(i - 1) = k),
                               (CHOOSE i \in 1..Len(v.s) : ToString(i - 1) = k)))])
    [] OTHER -> Obj([k \in {} |-> Null])

\* deepMerge in which an array of the source is merged by index into the
\* array of the target
RECURSIVE deepMerge_mergeArrays(_, _)
deepMerge_mergeArrays(target, source) ==
  IF isObject(target) /\ isObject(source)
    THEN Obj([key \in Keys(target) \cup Keys(source) |->
           IF key \notin Keys(source) THEN target.o[key]
           ELSE IF isObject(source.o[key])
             THEN IF key \notin Keys(target)
                    THEN source.o[key]
                    ELSE deepMerge_mergeArrays(target.o[key], source.o[key])
           ELSE IF source.o[key].t = "array" /\ Get(target, key).t = "array"
             THEN Arr([i \in 1..(IF Len(target.o[key].a) > Len(source.o[key].a)
                                   THEN Len(target.o[key].a)
                                   ELSE Len(source.o[key].a)) |->
                        IF i \in DOMAIN source.o[key].a
                          THEN source.o[key].a[i] ELSE target.o[key].a[i]])
           ELSE source.o[key]])
    ELSE spread(target)

RECURSIVE deepMerge(_, _)
deepMerge(target, source) ==
  IF isObject(target) /\ isObject(source)
    THEN Obj([key \in Keys(target) \cup Keys(source) |->
           IF key \notin Keys(source) THEN target.o[key]
           ELSE IF isObject(source.o[key])
             THEN IF key \notin Keys(target)
                    THEN source.o[key]
                    ELSE deepMerge(target.o[key], source.o[key])
           ELSE source.o[key]])
    ELSE spread(target)

\* values of a key of the merged trees: scalars, lists and mappings
MergeScalars == {Str(""), Str("A"), Null}

MergeLists ==
  { Arr(<<>>),
    Arr(<<WitnessEntry("A", "A", "A"), WitnessEntry("A", "", "")>>),
    Arr(<<WitnessEntry("A", "A", "A"), WitnessEntry("", "", ""),
          WitnessEntry("", "", "")>>) }

MergeMappings ==
  UNION { { Obj(f) : f \in [S -> {Str("A"), Str("B"), Arr(<<Str("A")>>)}] } :
            S \in SUBSET {"ulica", "numerLokalu"} }

MergeValues == MergeScalars \cup MergeLists \cup MergeMappings

\* trees of two keys, each absent or holding a value
MergeTrees ==
  { Obj(f) :
      f \in UNION { { g \in [S -> MergeValues] :
                        "sposobOdbioruOdpowiedzi" \in S =>
                          g["sposobOdbioruOdpowiedzi"] \in
                            MergeScalars \cup {Obj([ulica |-> Str("A")])} } :
                      S \in SUBSET {"daneSwiadkowWypadku", "sposobOdbioruOdpowiedzi"} } }

\* what location.state may carry as prefilledData: nothing, a tree, or a
\* value that is not a mapping
PrefilledValues == MergeTrees \cup {Undefined, Null, Str("A"), Arr(<<Str("A")>>)}

\* startingFormData
startingFormData(initialFormData, prefilledData) ==
  IF Truthy(prefilledData)
    THEN deepMerge(initialFormData, prefilledData)
    ELSE initialFormData

\* ------------------------------------------------------------------ state
VARIABLES
  data, cleanedPayload, renormalized, npc,          \* buildPayload, applied
  route,                                            \* the mounted page
  file, status, ocrResult, validationData,          \* SkanPage state
  formData, formStatus, loading, validationErrors,  \* FormPage state
  fieldErrors, activeWitnesses, edits,
  handled,                                          \* the /form response last handled
  wyjFormData, wyjStatus, wyjLoading, wyjFieldErrors, \* statement form state
  inflight, posts, userActions, currentRun,         \* requests and runs
  navigatedBy,                                      \* the response that led to /success-pdf
  mergeTarget, mergeSource, merged, mpc,            \* deepMerge, applied
  submissions, storage, folderLock, nextSuffix,     \* the archive of documents
  tpc, attempt, BACKEND_URL, FRONTEND_URL,          \* the tunnel start script
  REACT_APP_API_URL, running, logs, exitStatus, warned,
  folders, currentFolder, files, pracownikLoading,  \* PracownikPage state
  selectedPdf, aiResult, analyzing, fetches, folderActions,
  filesOf, aiResultOf,                              \* the folder a value is about
  editForm, editPrev, editPath, editValue,          \* updateField, applied
  editUpdated, editErrors, editErrorsNext, epc,
  formInstance                                      \* the FormPage instance mounted

normVars == <<data, cleanedPayload, renormalized, npc>>
skanVars == <<file, status, ocrResult, validationData>>
formVars == <<formData, formStatus, loading, validationErrors, fieldErrors,
              activeWitnesses, edits, handled>>
wyjVars == <<wyjFormData, wyjStatus, wyjLoading, wyjFieldErrors>>
netVars == <<inflight, posts, userActions, currentRun>>
appVars == <<route, skanVars, formVars, wyjVars, netVars, navigatedBy>>
mergeVars == <<mergeTarget, mergeSource, merged, mpc>>
archiveVars == <<submissions, storage, folderLock, nextSuffix>>
tunnelVars == <<tpc, attempt, BACKEND_URL, FRONTEND_URL, REACT_APP_API_URL,
                running, logs, exitStatus, warned>>
pracownikVars == <<folders, currentFolder, files, pracownikLoading, selectedPdf,
                   aiResult, analyzing, fetches, folderActions, filesOf, aiResultOf>>
editVars == <<editForm, editPrev, editPath, editValue, editUpdated, editErrors,
              editErrorsNext, epc>>
otherVars == <<tunnelVars, pracownikVars, editVars, formInstance>>
restVars == <<normVars, mergeVars, archiveVars, otherVars>>
idleVars == <<restVars, navigatedBy>>
vars == <<normVars, appVars, mergeVars, archiveVars, otherVars>>

\* ------------------------------------------------------------ page state
NoFile == [name |-> "", type |-> ""]

SelectedFiles ==
  { [name |-> "scan.pdf", type |-> "application/pdf"],
    [name |-> "scan.png", type |-> "image/png"] }

\* { type, message }
StatusOf(type, message) == Obj([type |-> Str(type), message |-> message])

\* `a || b`
OrElse(a, b) == IF Truthy(a) THEN a ELSE b

SkanPageInit ==
  /\ file = NoFile
  /\ status = Null
  /\ ocrResult = Null
  /\ validationData = Null

\* initialFormData of the EWYP form
InitialFormData ==
  FormTree(IdentityDocument("A", "A"), "A", "A", Bool(TRUE), "", "", "", "",
           <<WitnessEntry("A", "A", "A"), WitnessEntry("", "", ""),
             WitnessEntry("", "", "")>>)

\* the form started from a scan whose second witness slot is null
FormDataWithNullWitness ==
  FormTree(IdentityDocument("A", "A"), "A", "A", Bool(TRUE), "", "", "", "",
           <<WitnessEntry("A", "A", "A"), Null>>)

StartingFormData == {InitialFormData, FormDataWithNullWitness}

EmptyObject == Obj([x \in {} |-> Null])

\* no /form response handled since the last submit
NotHandled == [cause |-> "none"]

\* useState of FormPage, apart from formData
FormStateInit ==
  /\ formStatus = Null
  /\ loading = FALSE
  /\ validationErrors = Null
  /\ fieldErrors = EmptyObject
  /\ activeWitnesses = <<TRUE, FALSE, FALSE>>
  /\ edits = 0
  /\ handled = NotHandled

FormPageInit ==
  /\ formData \in StartingFormData
  /\ FormStateInit

\* initialFormData of the statement form: text fields and flags
WyjInitialFormData ==
  Obj([imieNazwisko |-> Str(""), dataWypadku |-> Str(""),
       czyWypadekPodczasObslugiMaszyn |-> Bool(FALSE)])

WyjPageInit ==
  /\ wyjFormData = WyjInitialFormData
  /\ wyjStatus = Null
  /\ wyjLoading = FALSE
  /\ wyjFieldErrors = EmptyObject

NoNavigation == [endpoint |-> "none"]

NetInit ==
  /\ inflight = {}
  /\ posts = 0
  /\ userActions = 0
  /\ currentRun = 0
  /\ navigatedBy = NoNavigation

MergeIdle ==
  /\ mergeTarget = Undefined
  /\ mergeSource = Undefined
  /\ merged = Undefined
  /\ mpc = "idle"

ArchiveIdle ==
  /\ submissions = <<>>
  /\ storage = <<>>
  /\ folderLock = <<>>
  /\ nextSuffix = <<>>

TunnelIdle ==
  /\ tpc = "idle"
  /\ attempt = 0
  /\ BACKEND_URL = ""
  /\ FRONTEND_URL = ""
  /\ REACT_APP_API_URL = ""
  /\ running = {}
  /\ logs = <<>>
  /\ exitStatus = 0
  /\ warned = FALSE

\* PracownikPage, not mounted
PracownikIdle ==
  /\ folders = Arr(<<>>)
  /\ currentFolder = Null
  /\ files = Arr(<<>>)
  /\ pracownikLoading = TRUE
  /\ selectedPdf = Null
  /\ aiResult = Null
  /\ analyzing = FALSE
  /\ fetches = {}
  /\ folderActions = 0
  /\ filesOf = Null
  /\ aiResultOf = Null

\* updateField, not called
EditIdle ==
  /\ editForm = ""
  /\ editPrev = Undefined
  /\ editPath = <<>>
  /\ editValue = Undefined
  /\ editUpdated = Undefined
  /\ editErrors = Undefined
  /\ editErrorsNext = Undefined
  /\ epc = "idle"

\* no FormPage instance is told from another
MountIdle == formInstance = 0

OthersIdle ==
  /\ TunnelIdle
  /\ PracownikIdle
  /\ EditIdle
  /\ MountIdle

NormIdle ==
  /\ data = Undefined
  /\ cleanedPayload = Undefined
  /\ renormalized = Undefined
  /\ npc = "idle"

\* -------------------------------------------- buildPayload on input trees
NormInit ==
  /\ data \in InputTrees
  /\ cleanedPayload = Undefined
  /\ renormalized = Undefined
  /\ npc = "input"
  /\ route = "/form/ewyp"
  /\ SkanPageInit
  /\ formData = InitialFormData
  /\ FormStateInit
  /\ WyjPageInit
  /\ NetInit
  /\ MergeIdle
  /\ ArchiveIdle
  /\ OthersIdle

\* const payload = buildPayload(formData)
Normalize ==
  /\ npc = "input"
  /\ cleanedPayload' = buildPayload(data)
  /\ data' = dataAfterBuildPayload(data)
  /\ npc' = "built"
  /\ UNCHANGED <<renormalized, appVars, mergeVars, archiveVars, otherVars>>

\* buildPayload applied to its own result
Renormalize ==
  /\ npc = "built"
  /\ ~IsThrow(cleanedPayload)
  /\ renormalized' = buildPayload(cleanedPayload)
  /\ npc' = "rebuilt"
  /\ UNCHANGED <<data, cleanedPayload, appVars, mergeVars, archiveVars, otherVars>>

NormNext == Normalize \/ Renormalize

SpecNorm == NormInit /\ [][NormNext]_vars

\* ------------------------------------------------- deepMerge on input trees
MergeInit ==
  /\ mergeTarget \in MergeTrees
  /\ mergeSource \in PrefilledValues
  /\ merged = Undefined
  /\ mpc = "input"
  /\ NormIdle
  /\ ArchiveIdle
  /\ OthersIdle
  /\ route = "/form/ewyp"
  /\ SkanPageInit
  /\ formData = InitialFormData
  /\ FormStateInit
  /\ WyjPageInit
  /\ NetInit

\* const startingFormData = prefilledData ? deepMerge(...) : initialFormData
Merge ==
  /\ mpc = "input"
  /\ merged' = startingFormData(mergeTarget, mergeSource)
  /\ mpc' = "merged"
  /\ UNCHANGED <<mergeTarget, mergeSource, normVars, appVars, archiveVars,
               otherVars>>

MergeNext == Merge

SpecMerge == MergeInit /\ [][MergeNext]_vars

\* ---------------------------------------------------------------- SkanPage
\* ValidationResult objects carried by a /skan response (data.data)
SkanCompleted ==
  Obj([valid |-> Bool(TRUE), pdf_filename |-> Str("EWYP.pdf"),
       validationStage |-> Str("completed")])

SkanValidWithoutPdf ==
  Obj([valid |-> Bool(TRUE), validationStage |-> Str("completed")])

\* what the scan of a document gave for the form: a list of two witnesses,
\* a witness list whose second entry is null, the name of a statement
ScanTwoWitnesses ==
  Obj([daneSwiadkowWypadku |->
         Arr(<<WitnessEntry("A", "A", "A"), WitnessEntry("A", "A", "")>>)])

ScanNullWitness ==
  Obj([daneSwiadkowWypadku |-> Arr(<<WitnessEntry("A", "A", "A"), Null>>)])

ScanStatement == Obj([imieNazwisko |-> Str("A")])

ScanNothing == Obj([x \in {} |-> Null])

\* the result of a scan that failed at a stage: reload_scan is always
\* offered, fill_form is offered exactly when the scan gave data for a form,
\* and this data comes with the result
scanFailed(stage, documentType, partial) ==
  LET offered == Keys(partial) # {}
      keys == {"valid", "validationStage", "userOptions"}
                \cup (IF documentType = Undefined THEN {} ELSE {"document_type"})
                \cup (IF offered THEN {"formData"} ELSE {})
  IN  Obj([k \in keys |->
        CASE k = "valid" -> Bool(FALSE)
          [] k = "validationStage" -> Str(stage)
          [] k = "userOptions" ->
               IF offered THEN Arr(<<Str("reload_scan"), Str("fill_form")>>)
                          ELSE Arr(<<Str("reload_scan")>>)
          [] k = "document_type" -> documentType
          [] k = "formData" -> partial])

SkanSchemaFailed ==
  { scanFailed("schema", Str("EWYP"), ScanTwoWitnesses),
    scanFailed("schema", Str("EWYP"), ScanNullWitness),
    scanFailed("schema", Str("EWYP"), ScanNothing),
    scanFailed("schema", Str("WYJASNIENIA_POSZKODOWANEGO"), ScanStatement),
    scanFailed("schema", Str("UNKNOWN"), ScanTwoWitnesses),
    scanFailed("schema", Undefined, ScanStatement),
    scanFailed("schema", Undefined, ScanNothing) }

SkanSemanticFailed ==
  { scanFailed("llm", Str("EWYP"), ScanTwoWitnesses) }

SkanResults ==
  {SkanCompleted, SkanValidWithoutPdf, Null} \cup SkanSchemaFailed
    \cup SkanSemanticFailed

\* what `await fetch(...)` and `await response.json()` can give:
\* fetch rejects, the body does not parse, or a body arrives with response.ok
SkanResponses ==
  { [rejected |-> TRUE, ok |-> FALSE, body |-> Undefined],
    [rejected |-> FALSE, ok |-> TRUE, body |-> Throw("SyntaxError")],
    [rejected |-> FALSE, ok |-> FALSE, body |-> Obj([detail |-> Str("detail")])],
    [rejected |-> FALSE, ok |-> FALSE, body |-> Obj([x \in {} |-> Null])] }
  \cup
  { [rejected |-> FALSE, ok |-> TRUE,
     body |-> Obj([success |-> Bool(s), message |-> Str("message"),
                   ocr_result |-> Str("ocr"), data |-> d])] :
      s \in BOOLEAN, d \in SkanResults }

\* Array.prototype.includes on a userOptions array
Includes(list, s) ==
  list.t = "array" /\ \E i \in DOMAIN list.a : list.a[i] = Str(s)

\* the "reload scan" button is rendered
ReloadScanOffered ==
  /\ Truthy(validationData)
  /\ Truthy(Get(validationData, "validationStage"))
  /\ Truthy(Get(validationData, "userOptions"))
  /\ Len(Get(validationData, "userOptions").a) > 0
  /\ Includes(Get(validationData, "userOptions"), "reload_scan")

\* a check that lets every file pass
isPdf_anyType(selectedFile) == TRUE

\* selectedFile.type !== 'application/pdf', negated
isPdf(selectedFile) == selectedFile.type = "application/pdf"

\* handleFile up to `await fetch`: a file that is not a PDF is refused,
\* otherwise the page is reset and one POST /skan is issued
HandleFile ==
  /\ route = "/skan"
  /\ userActions < MaxUserActions
  /\ userActions' = userActions + 1
  /\ \E selectedFile \in SelectedFiles :
       IF ~isPdf(selectedFile)
         THEN /\ status' = StatusOf("error", Str("skan.pdf_only"))
              /\ UNCHANGED <<file, ocrResult, validationData>>
              /\ UNCHANGED <<inflight, posts, currentRun>>
         ELSE /\ file' = selectedFile
              /\ ocrResult' = Null
              /\ validationData' = Null
              /\ status' = StatusOf("loading", Str("skan.uploading"))
              /\ posts' = posts + 1
              /\ inflight' = inflight \cup {[id |-> posts + 1, endpoint |-> "/skan",
                                              body |-> Str(selectedFile.name)]}
              /\ currentRun' = posts + 1
  /\ UNCHANGED <<route, idleVars, formVars, wyjVars>>

\* the state a /skan response leaves on a mounted SkanPage; the setters of
\* an unmounted page do nothing
SkanApply(newStatus, newOcrResult, newValidationData) ==
  IF route = "/skan"
    THEN /\ status' = newStatus
         /\ ocrResult' = newOcrResult
         /\ validationData' = newValidationData
    ELSE UNCHANGED <<status, ocrResult, validationData>>

\* handleFile from `await fetch` on, for the request req
SkanResponseOf_retry(req) ==
  /\ req.endpoint = "/skan"
  /\ posts' = posts + 1
  /\ inflight' = (inflight \ {req}) \cup {[id |-> posts + 1, endpoint |-> "/skan",
                                            body |-> req.body]}
  /\ UNCHANGED <<route, file, status, ocrResult, validationData, userActions,
                 currentRun, idleVars, formVars, wyjVars>>

SkanResponseOf(req) ==
  /\ req.endpoint = "/skan"
  /\ inflight' = inflight \ {req}
  /\ \E response \in SkanResponses :
       LET body == response.body
           result == Get(body, "data")
       IN  IF response.rejected \/ IsThrow(body)
             THEN /\ SkanApply(StatusOf("error", Str("skan.error")),
                               ocrResult, validationData)
                  /\ UNCHANGED <<route, navigatedBy>>
           ELSE IF response.ok /\ Truthy(Get(body, "success"))
             THEN IF Truthy(Get(result, "valid")) /\ Truthy(Get(result, "pdf_filename"))
                    THEN /\ route' = "/success-pdf"
                         /\ navigatedBy' = [endpoint |-> "/skan", response |-> response]
                         /\ UNCHANGED <<status, ocrResult, validationData>>
                    ELSE /\ SkanApply(StatusOf("success", Get(body, "message")),
                                      Get(body, "ocr_result"), result)
                         /\ UNCHANGED <<route, navigatedBy>>
           ELSE IF response.ok /\ ~Truthy(Get(body, "success"))
             THEN /\ SkanApply(StatusOf("error", Get(body, "message")),
                               Get(body, "ocr_result"), result)
                  /\ UNCHANGED <<route, navigatedBy>>
           ELSE /\ SkanApply(StatusOf("error",
                               OrElse(Get(body, "detail"), Str("skan.error"))),
                             ocrResult, validationData)
                /\ UNCHANGED <<route, navigatedBy>>
  /\ UNCHANGED <<file, posts, userActions, currentRun, restVars, formVars, wyjVars>>

SkanResponse == \E req \in inflight : SkanResponseOf(req)

\* handleReloadScan, behind the button of the validation section
HandleReloadScan ==
  /\ route = "/skan"
  /\ ReloadScanOffered
  /\ file' = NoFile
  /\ status' = Null
  /\ ocrResult' = Null
  /\ validationData' = Null
  /\ currentRun' = 0
  /\ UNCHANGED <<route, inflight, posts, userActions, idleVars, formVars, wyjVars>>

\* the "go to the form" button is rendered
FillFormOffered ==
  /\ Truthy(validationData)
  /\ Truthy(Get(validationData, "validationStage"))
  /\ Truthy(Get(validationData, "userOptions"))
  /\ Len(Get(validationData, "userOptions").a) > 0
  /\ Includes(Get(validationData, "userOptions"), "fill_form")

\* FormPage mounted with location.state.prefilledData
MountFormPage(prefilledData) ==
  /\ formData' = startingFormData(InitialFormData, prefilledData)
  /\ formStatus' = IF Truthy(prefilledData)
                     THEN StatusOf("info", Str("form.prefilled")) ELSE Null
  /\ loading' = FALSE
  /\ validationErrors' = Null
  /\ fieldErrors' = EmptyObject
  /\ activeWitnesses' = <<TRUE, FALSE, FALSE>>
  /\ edits' = 0
  /\ handled' = NotHandled

\* WyjasnieniaPoszkodowanegoFormPage mounted with location.state.prefilledData
MountWyjasnieniaPage(prefilledData) ==
  /\ wyjFormData' = startingFormData(WyjInitialFormData, prefilledData)
  /\ wyjStatus' = IF Truthy(prefilledData)
                    THEN StatusOf("info", Str("form.prefilled")) ELSE Null
  /\ wyjLoading' = FALSE
  /\ wyjFieldErrors' = EmptyObject

\* the route that handleGoToForm would take if every type other than EWYP
\* went to the statement form
formRouteOf_defaultWyjasnienia(documentType) ==
  IF documentType = Str("EWYP") THEN "/form/ewyp" ELSE "/form/wyjasnienia"

\* the route that handleGoToForm takes for a document type
formRouteOf(documentType) ==
  IF documentType = Str("WYJASNIENIA_POSZKODOWANEGO")
    THEN "/form/wyjasnienia" ELSE "/form/ewyp"

\* navigation that carries no state
navigationState_none(result) == Undefined

\* { state: { prefilledData: validationData.formData } }
navigationState(result) == Get(result, "formData")

\* handleGoToForm, behind the button of the validation section
HandleGoToForm ==
  /\ route = "/skan"
  /\ FillFormOffered
  /\ IF Truthy(validationData) /\ Truthy(Get(validationData, "formData"))
       THEN /\ route' = formRouteOf(Get(validationData, "document_type"))
            /\ IF route' = "/form/wyjasnienia"
                 THEN /\ MountWyjasnieniaPage(navigationState(validationData))
                      /\ UNCHANGED formVars
                 ELSE /\ MountFormPage(navigationState(validationData))
                      /\ UNCHANGED wyjVars
       ELSE UNCHANGED <<route, formVars, wyjVars>>
  /\ UNCHANGED <<skanVars, netVars, idleVars>>

\* ---------------------------------------------------------------- FormPage
\* ValidationResult objects carried by a /form response (data.data)
FormCompleted ==
  Obj([valid |-> Bool(TRUE), pdf_filename |-> Str("EWYP.pdf"),
       comment |-> Str("comment")])

FormValidWithoutPdf ==
  Obj([valid |-> Bool(TRUE), comment |-> Str("comment")])

FormSemanticFailed ==
  Obj([valid |-> Bool(FALSE), comment |-> Str("comment"),
       fieldErrors |-> Obj([x \in {"informacjaOWypadku.dataWypadku"} |-> Str("warning")])])

\* the same warning filed under the bare name of the field
FormSemanticFailedLeaf ==
  Obj([valid |-> Bool(FALSE), comment |-> Str("comment"),
       fieldErrors |-> Obj([x \in {"dataWypadku"} |-> Str("warning")])])

\* a verdict of the semantic checker that names no field
FormSemanticIncomplete ==
  Obj([valid |-> Bool(FALSE), comment |-> Str("comment")])

FormSchemaFailed ==
  Obj([valid |-> Bool(FALSE)])

FormResults ==
  {FormCompleted, FormValidWithoutPdf, FormSemanticFailed, FormSemanticFailedLeaf,
   FormSemanticIncomplete, FormSchemaFailed, Null}

\* the result of a run whose semantic checker timed out or failed: valid is
\* absent or false and the condition is reported under its own name
FormSemanticUnavailable ==
  { Obj([error |-> Str("SemanticValidationUnavailable")]),
    Obj([valid |-> Bool(FALSE), error |-> Str("SemanticValidationUnavailable")]),
    Obj([valid |-> Bool(FALSE), comment |-> Str("comment"),
         error |-> Str("SemanticValidationUnavailable")]) }

\* fetch rejects, the body does not parse, an error body, or a result body;
\* cause records what produced the response
FormResponses ==
  { [cause |-> "network", rejected |-> TRUE, body |-> Undefined],
    [cause |-> "unparsable", rejected |-> FALSE, body |-> Throw("SyntaxError")],
    [cause |-> "http_error", rejected |-> FALSE, body |-> Obj([detail |-> Str("detail")])] }
  \cup
  { [cause |-> "result", rejected |-> FALSE,
     body |-> Obj([success |-> Bool(s), message |-> m, data |-> d])] :
      s \in BOOLEAN, m \in {Str("message"), Str("")}, d \in FormResults }
  \cup
  { [cause |-> "unavailable", rejected |-> FALSE,
     body |-> Obj([success |-> Bool(FALSE), message |-> Str("message"), data |-> d])] :
      d \in FormSemanticUnavailable }

\* `current[key]` on an object or an array
GetKey(current, key) ==
  IF current.t = "array"
    THEN IF \E i \in DOMAIN current.a : ToString(i - 1) = key
           THEN current.a[CHOOSE i \in DOMAIN current.a : ToString(i - 1) = key]
           ELSE Undefined
    ELSE Get(current, key)

\* `current[key] = value` on an object or on an array, at an index that the
\* array has or at its end
PutKey(current, key, value) ==
  IF current.t = "array"
    THEN IF \E i \in DOMAIN current.a : ToString(i - 1) = key
           THEN Arr([i \in DOMAIN current.a |->
                      IF ToString(i - 1) = key THEN value ELSE current.a[i]])
           ELSE Arr(Append(current.a, value))
    ELSE Put(current, key, value)

\* the loop of updateField with a new {} for every container on the path
RECURSIVE setPath_newContainers(_, _, _)
setPath_newContainers(current, path, value) ==
  IF Len(path) = 1
    THEN PutKey(current, path[1], value)
    ELSE PutKey(current, path[1], setPath_newContainers(EmptyObject, Tail(path), value))

\* the loop of updateField: every container on the path is copied, a
\* missing or falsy one is replaced by {}, and the last key is assigned
RECURSIVE setPath(_, _, _)
setPath(current, path, value) ==
  IF Len(path) = 1
    THEN PutKey(current, path[1], value)
    ELSE LET child == GetKey(current, path[1])
             copy == IF child.t = "array"
                       THEN child
                       ELSE spread(OrElse(child, EmptyObject))
         IN  PutKey(current, path[1], setPath(copy, Tail(path), value))

\* path.join('.')
RECURSIVE join(_)
join(path) ==
  IF Len(path) = 1 THEN path[1] ELSE path[1] \o "." \o join(Tail(path))

\* an updater that drops every error
clearFieldError_all(prev, key) ==
  IF ~Truthy(Get(prev, key)) THEN prev ELSE EmptyObject

\* the updater that updateField passes to setFieldErrors
clearFieldError(prev, key) ==
  IF ~Truthy(Get(prev, key)) THEN prev ELSE Delete(prev, key)

\* the form tree after updateField(path, value)
updatedFormData(prev, path, value) == setPath(spread(prev), path, value)

\* the previous state object after the updater ran: it wrote to copies only
prevAfterUpdateField(prev, path, value) == prev

\* the statement form after updateField(field, value): { ...prev, [field]: value }
wyjUpdatedFormData(prev, field, value) == Put(spread(prev), field, value)

\* the witness list of the form and the checkbox of its slot i
Witnesses == Get(formData, "daneSwiadkowWypadku")

witnessActive(flags, i) == i \in DOMAIN flags /\ flags[i]

witnessPath(i, field) == <<"daneSwiadkowWypadku", ToString(i - 1), field>>

EmptyWitnessAddress == Address("", "")

\* updateField on the name of a witness whose fields are rendered
EditWitness ==
  /\ route = "/form/ewyp"
  /\ edits < MaxEdits
  /\ edits' = edits + 1
  /\ Witnesses.t = "array"
  /\ \E i \in DOMAIN Witnesses.a, field \in {"imie", "nazwisko"}, value \in FieldValues :
       /\ witnessActive(activeWitnesses, i)
       /\ isObject(Witnesses.a[i])
       /\ formData' = updatedFormData(formData, witnessPath(i, field), Str(value))
       /\ fieldErrors' = clearFieldError(fieldErrors, join(witnessPath(i, field)))
  /\ UNCHANGED <<route, formStatus, loading, validationErrors, activeWitnesses,
                 handled, idleVars, skanVars, wyjVars, netVars>>

\* onChange of the checkbox of a witness: the flag of the slot is flipped and
\* unchecking clears imie, nazwisko and adres of the slot; checking a slot
\* whose entry is null makes the next render throw, which unmounts the app
ToggleWitness ==
  /\ route = "/form/ewyp"
  /\ edits < MaxEdits
  /\ edits' = edits + 1
  /\ Witnesses.t = "array"
  /\ \E i \in DOMAIN Witnesses.a :
       LET checked == ~witnessActive(activeWitnesses, i)
           slots == DOMAIN activeWitnesses \cup {i}
           cleared1 == updatedFormData(formData, witnessPath(i, "imie"), Str(""))
           cleared2 == updatedFormData(cleared1, witnessPath(i, "nazwisko"), Str(""))
           cleared3 == updatedFormData(cleared2, witnessPath(i, "adres"),
                                       EmptyWitnessAddress)
       IN  /\ activeWitnesses' =
                [j \in slots |-> IF j = i THEN checked
                                 ELSE witnessActive(activeWitnesses, j)]
           /\ IF checked
                THEN /\ UNCHANGED <<formData, fieldErrors>>
                     /\ route' = IF isObject(Witnesses.a[i]) THEN route ELSE "crashed"
                ELSE /\ formData' = cleared3
                     /\ fieldErrors' =
                          clearFieldError(
                            clearFieldError(
                              clearFieldError(fieldErrors, join(witnessPath(i, "imie"))),
                              join(witnessPath(i, "nazwisko"))),
                            join(witnessPath(i, "adres")))
                     /\ UNCHANGED route
  /\ UNCHANGED <<formStatus, loading, validationErrors, handled, idleVars,
                 skanVars, wyjVars, netVars>>

\* inputs of the form: the path of the field that the input edits, and the
\* state and the key that its rendering looks up to decide on the mark
FormInputs ==
  { [path |-> "informacjaOWypadku.dataWypadku",
     state |-> "validationErrors", key |-> "dataWypadku"],
    [path |-> "informacjaOWypadku.miejsceWypadku",
     state |-> "validationErrors", key |-> "miejsceWypadku"],
    [path |-> "daneOsobyPoszkodowanej.imie",
     state |-> "fieldErrors", key |-> "daneOsobyPoszkodowanej.imie"] }

\* the className of the input carries 'input-warning' or 'form-input-error'
inputMarked(input) ==
  IF input.state = "validationErrors"
    THEN Truthy(Get(Get(validationErrors, "fieldErrors"), input.key))
    ELSE Truthy(Get(fieldErrors, input.key))

\* a submit button that is never disabled
submitEnabled_always(isLoading) == TRUE

\* <button type="submit" disabled={loading}>
submitEnabled(isLoading) == ~isLoading

\* FormPage.handleSubmit up to `await fetch`: the submit button is disabled
\* while loading; an exception of buildPayload is caught and no request is sent
HandleSubmit ==
  /\ route = "/form/ewyp"
  /\ submitEnabled(loading)
  /\ userActions < MaxUserActions
  /\ userActions' = userActions + 1
  /\ validationErrors' = Null
  /\ handled' = NotHandled
  /\ formData' = dataAfterBuildPayload(formData)
  /\ LET payload == buildPayload(formData)
     IN  IF IsThrow(payload)
           THEN /\ formStatus' = StatusOf("error", Str("form.error"))
                /\ loading' = FALSE
                /\ UNCHANGED <<inflight, posts>>
           ELSE /\ formStatus' = Null
                /\ loading' = TRUE
                /\ posts' = posts + 1
                /\ inflight' = inflight \cup {[id |-> posts + 1, endpoint |-> "/form",
                                              body |-> payload]}
  /\ UNCHANGED <<route, fieldErrors, activeWitnesses, edits, currentRun,
                 idleVars, skanVars, wyjVars>>

\* the outcome of a response whose success flag is not looked at
formOutcome_validOnly(response, errors) ==
  LET body == response.body
      result == Get(body, "data")
  IN  IF response.rejected \/ IsThrow(body)
        THEN [status |-> StatusOf("error", Str("form.error")),
              validationErrors |-> errors, navigate |-> FALSE]
      ELSE IF Truthy(Get(result, "valid"))
        THEN [status |-> StatusOf("success",
                           OrElse(Get(body, "message"), Str("form.success"))),
              validationErrors |-> Null,
              navigate |-> Truthy(Get(result, "pdf_filename"))]
      ELSE IF Truthy(result) /\ ~Truthy(Get(result, "valid"))
        THEN [status |-> StatusOf("error",
                           OrElse(Get(result, "comment"), Str("form.error"))),
              validationErrors |->
                Obj([comment |-> Get(result, "comment"),
                     fieldErrors |-> OrElse(Get(result, "fieldErrors"), EmptyObject)]),
              navigate |-> FALSE]
      ELSE [status |-> StatusOf("error",
                         OrElse(Get(body, "message"), Str("form.error"))),
            validationErrors |-> errors, navigate |-> FALSE]

\* handleSubmit from `const data = await res.json()` to `finally`: the status
\* and the validationErrors it sets and whether it navigates to /success-pdf
formOutcome(response, errors) ==
  LET body == response.body
      result == Get(body, "data")
  IN  IF response.rejected \/ IsThrow(body)
        THEN [status |-> StatusOf("error", Str("form.error")),
              validationErrors |-> errors, navigate |-> FALSE]
      ELSE IF Truthy(Get(body, "success")) /\ Truthy(Get(result, "valid"))
        THEN [status |-> StatusOf("success",
                           OrElse(Get(body, "message"), Str("form.success"))),
              validationErrors |-> Null,
              navigate |-> Truthy(Get(result, "pdf_filename"))]
      ELSE IF Truthy(result) /\ ~Truthy(Get(result, "valid"))
        THEN [status |-> StatusOf("error",
                           OrElse(Get(result, "comment"), Str("form.error"))),
              validationErrors |->
                Obj([comment |-> Get(result, "comment"),
                     fieldErrors |-> OrElse(Get(result, "fieldErrors"), EmptyObject)]),
              navigate |-> FALSE]
      ELSE [status |-> StatusOf("error",
                         OrElse(Get(body, "message"), Str("form.error"))),
            validationErrors |-> errors, navigate |-> FALSE]

\* the state a /form response leaves without the `finally` of handleSubmit
FormApply_withoutFinally(response, newStatus, newValidationErrors) ==
  IF route = "/form/ewyp"
    THEN /\ formStatus' = newStatus
         /\ validationErrors' = newValidationErrors
         /\ loading' = loading
         /\ handled' = [cause |-> response.cause]
    ELSE UNCHANGED <<formStatus, validationErrors, loading, handled>>

\* the state a /form response leaves on a mounted FormPage, `finally`
\* included; the setters of an unmounted page do nothing
FormApply(response, newStatus, newValidationErrors) ==
  IF route = "/form/ewyp"
    THEN /\ formStatus' = newStatus
         /\ validationErrors' = newValidationErrors
         /\ loading' = FALSE
         /\ handled' = [cause |-> response.cause]
    ELSE UNCHANGED <<formStatus, validationErrors, loading, handled>>

\* FormPage.handleSubmit from `await fetch` on, for the request req
FormResponseOf(req) ==
  /\ req.endpoint = "/form"
  /\ inflight' = inflight \ {req}
  /\ \E response \in FormResponses :
       LET outcome == formOutcome(response, validationErrors)
       IN  /\ FormApply(response, outcome.status, outcome.validationErrors)
           /\ route' = IF outcome.navigate THEN "/success-pdf" ELSE route
           /\ navigatedBy' = IF outcome.navigate
                                THEN [endpoint |-> "/form", response |-> response]
                                ELSE navigatedBy
  /\ UNCHANGED <<formData, fieldErrors, activeWitnesses, edits, posts, userActions,
                 currentRun, restVars, skanVars, wyjVars>>

FormResponse == \E req \in inflight : FormResponseOf(req)

\* ------------------------------------- WyjasnieniaPoszkodowanegoFormPage
WyjResults ==
  { Obj([pdf_filename |-> Str("WYJ.pdf"), comment |-> Str("comment")]),
    Obj([fieldErrors |-> Obj([x \in {"dataWypadku"} |-> Str("warning")])]),
    Null }

WyjResponses ==
  { [rejected |-> TRUE, body |-> Undefined],
    [rejected |-> FALSE, body |-> Throw("SyntaxError")],
    [rejected |-> FALSE, body |-> Obj([detail |-> Str("detail")])] }
  \cup
  { [rejected |-> FALSE,
     body |-> Obj([success |-> Bool(s), message |-> Str("message"), data |-> d])] :
      s \in BOOLEAN, d \in WyjResults }

\* Object.fromEntries(Object.entries(formData).filter(value !== '' && !== null))
wyjPayload(form) ==
  Obj([k \in {x \in Keys(form) : form.o[x] # Str("") /\ form.o[x] # Null} |-> form.o[k]])

\* handleSubmit of the statement form up to `await fetch`
HandleSubmitWyjasnienia ==
  /\ route = "/form/wyjasnienia"
  /\ ~wyjLoading
  /\ userActions < MaxUserActions
  /\ userActions' = userActions + 1
  /\ wyjLoading' = TRUE
  /\ wyjStatus' = Null
  /\ posts' = posts + 1
  /\ inflight' = inflight \cup {[id |-> posts + 1, endpoint |-> "/form/wyjasnienia",
                                  body |-> wyjPayload(wyjFormData)]}
  /\ UNCHANGED <<route, wyjFormData, wyjFieldErrors, currentRun, idleVars, skanVars, formVars>>

WyjApply(newStatus, newFieldErrors) ==
  IF route = "/form/wyjasnienia"
    THEN /\ wyjStatus' = newStatus
         /\ wyjFieldErrors' = newFieldErrors
         /\ wyjLoading' = FALSE
    ELSE UNCHANGED <<wyjStatus, wyjFieldErrors, wyjLoading>>

\* handleSubmit of the statement form from `await fetch` on
WyjResponseOf(req) ==
  /\ req.endpoint = "/form/wyjasnienia"
  /\ inflight' = inflight \ {req}
  /\ \E response \in WyjResponses :
       LET body == response.body
           result == Get(body, "data")
       IN  IF response.rejected \/ IsThrow(body)
             THEN /\ WyjApply(StatusOf("error", Str("wyjasnienia.error")), wyjFieldErrors)
                  /\ UNCHANGED <<route, navigatedBy>>
           ELSE IF Truthy(Get(body, "success"))
             THEN /\ WyjApply(StatusOf("success",
                                OrElse(Get(body, "message"), Str("wyjasnienia.success"))),
                              wyjFieldErrors)
                  /\ route' = IF Truthy(Get(result, "pdf_filename"))
                                THEN "/success-pdf" ELSE route
                  /\ navigatedBy' = IF Truthy(Get(result, "pdf_filename"))
                                      THEN [endpoint |-> "/form/wyjasnienia",
                                            response |-> response]
                                      ELSE navigatedBy
           ELSE /\ WyjApply(StatusOf("error",
                              OrElse(Get(body, "message"), Str("wyjasnienia.error"))),
                            IF Truthy(Get(result, "fieldErrors"))
                              THEN Get(result, "fieldErrors") ELSE wyjFieldErrors)
                /\ UNCHANGED <<route, navigatedBy>>
  /\ UNCHANGED <<wyjFormData, posts, userActions, currentRun, restVars, skanVars,
                 formVars>>

WyjResponse == \E req \in inflight : WyjResponseOf(req)

\* -------------------------------------------------- Form Assembler / Archiver
\* national IDs and document types of the submissions
NationalIds == {"90010112345", "85020254321"}

ArchivedTypes == {"EWYP", "WYJASNIENIA_POSZKODOWANEGO"}

Submissions == 1..MaxSubmissions

NoHolder == 0

\* a filename that is the document type alone
fileName_typeOnly(documentType, suffix) == <<documentType, 0>>

\* a filename: the document type and a monotonically increasing suffix
fileName(documentType, suffix) == <<documentType, suffix>>

\* the pages outside the pipeline, at rest
PagesIdle ==
  /\ route = "/form/ewyp"
  /\ SkanPageInit
  /\ formData = InitialFormData
  /\ FormStateInit
  /\ WyjPageInit
  /\ NetInit

ArchiveInit ==
  /\ submissions \in [Submissions ->
                       [id : NationalIds, documentType : ArchivedTypes,
                        stage : {"RECEIVED"}, name : {<<>>},
                        visited : {{"RECEIVED"}}, structuralErrors : {<<>>}]]
  /\ storage = [id \in NationalIds |-> <<>>]
  /\ folderLock = [id \in NationalIds |-> NoHolder]
  /\ nextSuffix = [id \in NationalIds |-> 1]
  /\ NormIdle
  /\ MergeIdle
  /\ PagesIdle
  /\ OthersIdle

\* the files of a folder: a function from filenames to documents
WriteFile(folder, name, document) ==
  [n \in DOMAIN folder \cup {name} |-> IF n = name THEN document ELSE folder[n]]

\* a submission enters a stage: the stages it has been in are remembered
enter(submission, stage) ==
  [submission EXCEPT !.stage = stage, !.visited = @ \cup {stage}]

\* the structural errors the schema validator can report: an ordered list of
\* {path, message}
StructuralErrorLists ==
  {<<>>, <<[path |-> "daneOsobowePoszkodowanego.pesel", message |-> "required"]>>}

\* the semantic stage is entered whatever the schema validator reported
stageAfterSchema_alwaysSemantic(structuralErrors) == "SEMANTIC_VALIDATING"

\* absence of any structural error means the schema stage passes
stageAfterSchema(structuralErrors) ==
  IF structuralErrors = <<>> THEN "SEMANTIC_VALIDATING" ELSE "SCHEMA_FAILED"

\* RECEIVED -> CLASSIFYING
Classify(s) ==
  /\ submissions[s].stage = "RECEIVED"
  /\ submissions' = [submissions EXCEPT ![s] = enter(@, "CLASSIFYING")]
  /\ UNCHANGED <<storage, folderLock, nextSuffix>>

\* CLASSIFYING -> SCHEMA_VALIDATING
StartSchemaValidation(s) ==
  /\ submissions[s].stage = "CLASSIFYING"
  /\ submissions' = [submissions EXCEPT ![s] = enter(@, "SCHEMA_VALIDATING")]
  /\ UNCHANGED <<storage, folderLock, nextSuffix>>

\* neither signature set matches: ClassificationAmbiguous is reported as a
\* structural error
ClassificationAmbiguous(s) ==
  /\ submissions[s].stage = "CLASSIFYING"
  /\ submissions' = [submissions EXCEPT
                       ![s] = [enter(@, "SCHEMA_FAILED") EXCEPT
                                 !.structuralErrors =
                                   <<[path |-> "documentType",
                                      message |-> "ClassificationAmbiguous"]>>]]
  /\ UNCHANGED <<storage, folderLock, nextSuffix>>

\* SCHEMA_VALIDATING -> {SCHEMA_FAILED | SEMANTIC_VALIDATING}
SchemaValidate(s) ==
  /\ submissions[s].stage = "SCHEMA_VALIDATING"
  /\ \E errors \in StructuralErrorLists :
       submissions' = [submissions EXCEPT
                         ![s] = [enter(@, stageAfterSchema(errors))
                                   EXCEPT !.structuralErrors = errors]]
  /\ UNCHANGED <<storage, folderLock, nextSuffix>>

\* SEMANTIC_VALIDATING -> {SEMANTIC_FAILED | COMPLETED}; no lock is held while
\* the external judgment is awaited
SemanticValidate(s) ==
  /\ submissions[s].stage = "SEMANTIC_VALIDATING"
  /\ \E outcome \in {"COMPLETED", "SEMANTIC_FAILED"} :
       submissions' = [submissions EXCEPT ![s] = enter(@, outcome)]
  /\ UNCHANGED <<storage, folderLock, nextSuffix>>

\* writes to the folder of an ID are serialized by a lock of that ID
AcquireFolder(s) ==
  /\ submissions[s].stage = "COMPLETED"
  /\ folderLock[submissions[s].id] = NoHolder
  /\ folderLock' = [folderLock EXCEPT ![submissions[s].id] = s]
  /\ submissions' = [submissions EXCEPT ![s] = enter(@, "ASSEMBLING")]
  /\ UNCHANGED <<storage, nextSuffix>>

\* the holder of the lock takes the next filename of the folder and starts
\* to write its document under it
StartWrite(s) ==
  LET id == submissions[s].id
      name == fileName(submissions[s].documentType, nextSuffix[id])
  IN  /\ submissions[s].stage = "ASSEMBLING"
      /\ nextSuffix' = [nextSuffix EXCEPT ![id] = @ + 1]
      /\ storage' = [storage EXCEPT
                       ![id] = WriteFile(@, name, [of |-> s, complete |-> FALSE])]
      /\ submissions' = [submissions EXCEPT
                            ![s] = [enter(@, "WRITING") EXCEPT !.name = name]]
      /\ UNCHANGED folderLock

\* the write ends: the document is complete, or the write fails with
\* StorageWriteError, which is reported and not retried
FinishWrite(s) ==
  LET id == submissions[s].id
      name == submissions[s].name
  IN  /\ submissions[s].stage = "WRITING"
      /\ \/ /\ storage' = [storage EXCEPT
                             ![id] = WriteFile(@, name, [of |-> s, complete |-> TRUE])]
            /\ submissions' = [submissions EXCEPT ![s] = enter(@, "WRITTEN")]
         \/ /\ storage' = [storage EXCEPT
                             ![id] = [n \in DOMAIN @ \ {name} |-> @[n]]]
            /\ submissions' = [submissions EXCEPT
                                  ![s] = enter(@, "STORAGE_WRITE_ERROR")]
      /\ UNCHANGED <<folderLock, nextSuffix>>

\* the lock of the folder is released and the path of the file is returned
ReleaseFolder(s) ==
  /\ submissions[s].stage \in {"WRITTEN", "STORAGE_WRITE_ERROR"}
  /\ folderLock[submissions[s].id] = s
  /\ folderLock' = [folderLock EXCEPT ![submissions[s].id] = NoHolder]
  /\ submissions' = [submissions EXCEPT
                       ![s] = enter(@, IF @.stage = "WRITTEN" THEN "ARCHIVED"
                                                            ELSE "FAILED")]
  /\ UNCHANGED <<storage, nextSuffix>>

ArchiveStep(s) ==
  \/ Classify(s)
  \/ ClassificationAmbiguous(s)
  \/ StartSchemaValidation(s)
  \/ SchemaValidate(s)
  \/ SemanticValidate(s)
  \/ AcquireFolder(s)
  \/ StartWrite(s)
  \/ FinishWrite(s)
  \/ ReleaseFolder(s)

ArchiveNext ==
  /\ \E s \in Submissions : ArchiveStep(s)
  /\ UNCHANGED <<normVars, mergeVars, appVars, otherVars>>

SpecArchive == ArchiveInit /\ [][ArchiveNext]_vars

\* ------------------------------------------------------------------- App
\* the user opens one of the three submission pages
AppInit ==
  /\ NormIdle
  /\ route \in {"/skan", "/form/ewyp", "/form/wyjasnienia"}
  /\ SkanPageInit
  /\ FormPageInit
  /\ WyjPageInit
  /\ NetInit
  /\ MergeIdle
  /\ ArchiveIdle
  /\ OthersIdle

AppNext ==
  \/ HandleFile
  \/ SkanResponse
  \/ HandleReloadScan
  \/ HandleGoToForm
  \/ EditWitness
  \/ ToggleWitness
  \/ HandleSubmit
  \/ FormResponse
  \/ HandleSubmitWyjasnienia
  \/ WyjResponse

SpecApp == AppInit /\ [][AppNext]_vars

\* ------------------------------------------------ properties of buildPayload
Built == npc \in {"built", "rebuilt"}

DeclaresVictim(d) ==
  Get(Get(d, "daneOsobyKtoraZawiadamia"), "jestPoszkodowanym") = Bool(TRUE)

InputWitnesses == Get(data, "daneSwiadkowWypadku").a

OutputWitnesses ==
  IF Get(cleanedPayload, "daneSwiadkowWypadku").t = "array"
    THEN Get(cleanedPayload, "daneSwiadkowWypadku").a
    ELSE <<>>

BothNamesEmpty(w) == Get(w, "imie") = Str("") /\ Get(w, "nazwisko") = Str("")

\* a flat block of strings without its '' fields; undefined when none is left
FilledFields(block) ==
  LET filled == {f \in Keys(block) : block.o[f] # Str("")}
  IN  IF filled = {} THEN Undefined ELSE Obj([f \in filled |-> block.o[f]])

WhitespaceOnly == {" "}

RequiredAddressFields ==
  {"ulica", "numerDomu", "kodPocztowy", "miejscowosc", "nazwaPanstwa"}

RECURSIVE NoEmptyValue(_)
NoEmptyValue(v) ==
  CASE v.t \in {"null", "undefined"} -> FALSE
    [] v.t = "string" -> v.s # ""
    [] v.t = "array" -> Len(v.a) > 0 /\ \A i \in DOMAIN v.a : NoEmptyValue(v.a[i])
    [] v.t = "object" -> DOMAIN v.o # {} /\ \A k \in DOMAIN v.o : NoEmptyValue(v.o[k])
    [] OTHER -> TRUE

RECURSIVE HasWhitespaceOnlyString(_)
HasWhitespaceOnlyString(v) ==
  CASE v.t = "string" -> v.s \in WhitespaceOnly
    [] v.t = "array" -> \E i \in DOMAIN v.a : HasWhitespaceOnlyString(v.a[i])
    [] v.t = "object" -> \E k \in DOMAIN v.o : HasWhitespaceOnlyString(v.o[k])
    [] OTHER -> FALSE

\* C1: normalizing a normalized tree completes and gives the same tree,
\* for every input tree, the all-empty ones included.
C1_Idempotent ==
  npc = "rebuilt" => renormalized = cleanedPayload

\* C2: when the notifier declares itself the victim, the notifier entity of
\* the output has exactly the key jestPoszkodowanym.
C2_NotifierCollapse ==
  (Built /\ DeclaresVictim(data)) =>
    Keys(Get(cleanedPayload, "daneOsobyKtoraZawiadamia")) = {"jestPoszkodowanym"}

C2_Witness ==
  /\ Built
  /\ DeclaresVictim(data)
  /\ Get(Get(data, "daneOsobyKtoraZawiadamia"), "imie") = Str("A")

\* C3: when the notifier declares itself the victim, the output has none of
\* the three notifier-address blocks, and the victim's address block is the
\* input block with its filled fields.
C3_NoNotifierAddresses ==
  (Built /\ DeclaresVictim(data)) =>
    /\ Keys(cleanedPayload) \cap NotifierAddressKeys = {}
    /\ \A k \in VictimAddressKeys :
         Get(cleanedPayload, k) = FilledFields(Get(data, k))

C3_Witness ==
  /\ Built
  /\ DeclaresVictim(data)
  /\ \A k \in NotifierAddressKeys : Get(Get(data, k), "ulica") = Str("A")
  /\ \A k \in VictimAddressKeys : Get(Get(data, k), "ulica") = Str("A")

\* C4: a witness entry is removed exactly when both of its names are empty:
\* the output keeps as many entries as the input has entries with a name.
C4_WitnessKeptIffNamed ==
  Built =>
    Len(OutputWitnesses) =
      Len(SelectSeq(InputWitnesses, LAMBDA w : ~BothNamesEmpty(w)))

\* C5: a witness list whose entries all have both names empty leaves no
\* daneSwiadkowWypadku key in the output, whatever their address data.
C5_EmptyWitnessListDropped ==
  (Built /\ \A i \in DOMAIN InputWitnesses : BothNamesEmpty(InputWitnesses[i])) =>
    "daneSwiadkowWypadku" \notin Keys(cleanedPayload)

C5_Witness ==
  /\ Built
  /\ cleanedPayload.t = "object"
  /\ Len(InputWitnesses) > 0
  /\ \A i \in DOMAIN InputWitnesses : BothNamesEmpty(InputWitnesses[i])
  /\ \E i \in DOMAIN InputWitnesses :
       Get(Get(InputWitnesses[i], "adres"), "ulica") = Str("A")

\* C6: the output tree holds no null, no empty string, no empty array and
\* no empty object at any depth.
C6_NoEmptyValues ==
  (Built /\ cleanedPayload.t = "object") => NoEmptyValue(cleanedPayload)

C6_Witness ==
  /\ Built
  /\ Len(OutputWitnesses) > 0
  /\ \E i \in DOMAIN OutputWitnesses : "adres" \notin Keys(OutputWitnesses[i])
  /\ ~DeclaresVictim(data)
  /\ Keys(cleanedPayload) \cap NotifierAddressKeys = {}

\* C7: a string that consists only of whitespace is absent from the output,
\* as an empty string is.
C7_WhitespaceStripped ==
  Built => ~HasWhitespaceOnlyString(cleanedPayload)

\* C8: an address block with none of its required fields filled is absent
\* from the output, even when one of its optional fields is filled.
C8_AddressWithoutRequiredAbsent ==
  Built =>
    \A k \in VictimAddressKeys :
      (\A f \in Keys(Get(data, k)) \cap RequiredAddressFields :
          Get(Get(data, k), f) = Str(""))
        => k \notin Keys(cleanedPayload)

\* --------------------------------------------- properties of the handlers
\* C9: the response of a superseded upload (one that is not the most recent
\* user-initiated run) changes none of status, ocrResult, validationData and
\* does not navigate.
C9_LateResultDiscarded ==
  [][\A req \in inflight :
       (req.endpoint = "/skan" /\ req \notin inflight' /\ req.id # currentRun)
         => UNCHANGED <<status, ocrResult, validationData, route>>]_vars

StatusType(st) == IF st.t = "object" THEN st.o["type"].s ELSE "none"

\* a handler has started a run: its page shows the run as loading
RunStarted ==
  StatusType(status) = "loading" \/ loading \/ wyjLoading

IncompleteVerdicts ==
  {r \in FormResponses :
     /\ r.cause = "result"
     /\ Truthy(Get(r.body, "data"))
     /\ ~Truthy(Get(Get(r.body, "data"), "valid"))}

\* C11: the form state that the response of a timed-out semantic checker
\* leaves (status type, validationErrors) differs from the state that every
\* genuine verdict with valid absent or false leaves.
C11_TimeoutDistinctFromVerdict ==
  (route = "/form/ewyp" /\ handled.cause = "unavailable") =>
    \A verdict \in IncompleteVerdicts :
      LET outcome == formOutcome(verdict, Null)
      IN  <<StatusType(formStatus), validationErrors>>
            # <<StatusType(outcome.status), outcome.validationErrors>>

\* ------------------------------------------------- properties of deepMerge
Merged == mpc = "merged" /\ isObject(mergeTarget) /\ isObject(mergeSource)

\* C13: for every key k of the overlay, the result at k is the recursive
\* merge of base[k] and overlay[k] when both are mappings and is exactly
\* overlay[k] in every other case.
C13_OverlayWins ==
  Merged =>
    \A k \in Keys(mergeSource) :
      Get(merged, k) =
        IF isObject(Get(mergeTarget, k)) /\ isObject(Get(mergeSource, k))
          THEN deepMerge(Get(mergeTarget, k), Get(mergeSource, k))
          ELSE Get(mergeSource, k)

\* C14: an array of the overlay replaces the value of the base wholesale:
\* the result at its key is exactly the array of the overlay, with as many
\* entries.
C14_ArrayReplaced ==
  Merged =>
    \A k \in Keys(mergeSource) :
      Get(mergeSource, k).t = "array" =>
        /\ Get(merged, k) = Get(mergeSource, k)
        /\ Len(Get(merged, k).a) = Len(Get(mergeSource, k).a)

\* a list of two witnesses has been merged onto a list of three slots
C14_Witness ==
  /\ Merged
  /\ Get(mergeTarget, "daneSwiadkowWypadku").t = "array"
  /\ Get(mergeSource, "daneSwiadkowWypadku").t = "array"
  /\ Len(Get(mergeTarget, "daneSwiadkowWypadku").a) = 3
  /\ Len(Get(mergeSource, "daneSwiadkowWypadku").a) = 2
  /\ Len(Get(merged, "daneSwiadkowWypadku").a) = 2

\* ------------------------------------------- properties of handleGoToForm
FormRoutes == {"/form/ewyp", "/form/wyjasnienia"}

KnownDocumentTypes == {Str("EWYP"), Str("WYJASNIENIA_POSZKODOWANEGO")}

\* the step leaves SkanPage for one of the two forms
GoesToForm == route = "/skan" /\ route' \in FormRoutes

\* C12 as stated: a scan result whose document type is unknown or missing
\* is never routed to one of the two forms.
C12_NoDefaultGuess ==
  [][GoesToForm => Get(validationData, "document_type") \in KnownDocumentTypes]_vars

\* C12 as the code has it: a result that carries form data is routed to the
\* statement form exactly when its document type is
\* WYJASNIENIA_POSZKODOWANEGO, and to the EWYP form for every other type,
\* unknown or missing ones included.
C12_UnknownTypeDefaultsToEwyp ==
  [][GoesToForm =>
       /\ Truthy(Get(validationData, "formData"))
       /\ route' = IF Get(validationData, "document_type")
                       = Str("WYJASNIENIA_POSZKODOWANEGO")
                     THEN "/form/wyjasnienia" ELSE "/form/ewyp"]_vars

\* the EWYP form has been opened from a scan of unknown or missing type
C12_Witness ==
  /\ route = "/form/ewyp"
  /\ StatusType(formStatus) = "info"
  /\ FillFormOffered
  /\ Get(validationData, "document_type") \notin KnownDocumentTypes

\* every value of the partial data is in the form, under the same path
RECURSIVE Covers(_, _)
Covers(form, partial) ==
  IF isObject(partial)
    THEN /\ isObject(form)
         /\ \A k \in Keys(partial) : Covers(Get(form, k), partial.o[k])
    ELSE form = partial

NoName(swiadek) ==
  ~Truthy(Get(swiadek, "imie")) /\ ~Truthy(Get(swiadek, "nazwisko"))

\* C15: in every state of the EWYP form a witness slot whose checkbox is
\* off holds empty name data, so that buildPayload keeps no witness that the
\* form shows as inactive.
C15_InactiveWitnessEmpty ==
  (route = "/form/ewyp" /\ Witnesses.t = "array") =>
    \A i \in DOMAIN Witnesses.a :
      ~witnessActive(activeWitnesses, i) => NoName(Witnesses.a[i])

HasNullWitness(form) ==
  /\ Get(form, "daneSwiadkowWypadku").t = "array"
  /\ \E i \in DOMAIN Get(form, "daneSwiadkowWypadku").a :
       IsNullish(Get(form, "daneSwiadkowWypadku").a[i])

IsEntry(swiadek) == ~IsNullish(swiadek)

\* the form without the entries that cannot be normalized
WithoutNullWitnesses(form) ==
  Put(form, "daneSwiadkowWypadku",
      Arr(SelectSeq(Get(form, "daneSwiadkowWypadku").a, IsEntry)))

\* C17: when one witness entry of the form is null, submitting the form
\* sends the payload built from the rest of the form: the entry is omitted
\* and the submission proceeds.
C17_NullWitnessOmitted ==
  [][(route = "/form/ewyp" /\ userActions' = userActions + 1
        /\ HasNullWitness(formData))
       => \E req \in inflight' \ inflight :
            /\ req.endpoint = "/form"
            /\ req.body = buildPayload(WithoutNullWitnesses(formData))]_vars

\* C18: after a /form response with warnings, the inputs that the form
\* marks are exactly those whose field path is a key of the fieldErrors
\* mapping of the response.
C18_PathMarksItsInput ==
  (route = "/form/ewyp" /\ isObject(validationErrors)) =>
    \A input \in FormInputs :
      inputMarked(input)
        <=> input.path \in Keys(Get(validationErrors, "fieldErrors"))

\* ------------------------------------------------ properties of the archive
Archived(s) == submissions[s].stage = "ARCHIVED"

\* the file of an archived submission holds the complete document of it
HoldsOwnDocument(s) ==
  LET folder == storage[submissions[s].id]
  IN  /\ submissions[s].name \in DOMAIN folder
      /\ folder[submissions[s].name] = [of |-> s, complete |-> TRUE]

Writers(id) ==
  {s \in Submissions :
     submissions[s].id = id /\ submissions[s].stage \in {"ASSEMBLING", "WRITING", "WRITTEN"}}

\* C20: two archived submissions of one national ID have two distinct files
\* in the folder of the ID, each the complete document of its submission,
\* and at most one submission at a time writes to the folder of an ID.
C20_NoOverwrite ==
  /\ \A id \in DOMAIN storage : Cardinality(Writers(id)) <= 1
  /\ \A s \in DOMAIN submissions :
       Archived(s) =>
         /\ HoldsOwnDocument(s)
         /\ \A u \in DOMAIN submissions \ {s} :
              (Archived(u) /\ submissions[u].id = submissions[s].id)
                => submissions[u].name # submissions[s].name

\* two submissions of one ID and one document type are both archived
C20_Witness ==
  /\ 2 \in DOMAIN submissions
  /\ Archived(1) /\ Archived(2)
  /\ submissions[1].id = submissions[2].id
  /\ submissions[1].documentType = submissions[2].documentType
  /\ Cardinality(DOMAIN storage[submissions[1].id]) = 2

\* ---------------------------------------------------------------- C21
FailedStages == {"SCHEMA_FAILED", "SEMANTIC_FAILED"}

AssemblyStages ==
  {"ASSEMBLING", "WRITING", "WRITTEN", "STORAGE_WRITE_ERROR", "ARCHIVED", "FAILED"}

\* the stages downstream of a stage
Downstream(stage) ==
  CASE stage = "SCHEMA_FAILED" ->
         {"SEMANTIC_VALIDATING", "SEMANTIC_FAILED", "COMPLETED"} \cup AssemblyStages
    [] stage = "SEMANTIC_FAILED" -> {"COMPLETED"} \cup AssemblyStages
    [] OTHER -> {}

\* C21: a run is in or past the semantic stage only if the schema validator ran
\* and reported no structural error; a run that has been in SCHEMA_FAILED or
\* SEMANTIC_FAILED has been in no stage downstream of it, form assembly
\* included; form assembly is entered only by a run that was COMPLETED
C21_StagesInOrder ==
  \A s \in Submissions :
    LET run == submissions[s]
    IN  /\ "SEMANTIC_VALIDATING" \in run.visited
             => ("SCHEMA_VALIDATING" \in run.visited /\ run.structuralErrors = <<>>)
        /\ \A failed \in FailedStages :
             failed \in run.visited => run.visited \cap Downstream(failed) = {}
        /\ run.visited \cap AssemblyStages # {} => "COMPLETED" \in run.visited
        /\ "COMPLETED" \in run.visited => "SEMANTIC_VALIDATING" \in run.visited

\* one run failed the schema stage and stays there, another run passed both
\* validators and was archived
C21_Witness ==
  \E s, u \in Submissions :
    /\ submissions[s].stage = "SCHEMA_FAILED"
    /\ submissions[s].structuralErrors # <<>>
    /\ "SCHEMA_VALIDATING" \in submissions[s].visited
    /\ submissions[u].stage = "ARCHIVED"

\* ------------------------------------------------- the tunnel start script
\* for i in {1..10}
Attempts == 10

MaxLogLines == 2

Tunnels == {"tunnel-backend", "tunnel-frontend"}

\* what a tunnel container writes to its log
LogLines ==
  {"INF Requesting new quick Tunnel on trycloudflare.com...",
   "https://blue-river.trycloudflare.com",
   "https://red-hill.trycloudflare.com"}

startsWith(line, prefix) ==
  Len(line) >= Len(prefix) /\ SubSeq(line, 1, Len(prefix)) = prefix

endsWith(line, suffix) ==
  Len(line) >= Len(suffix)
    /\ SubSeq(line, Len(line) - Len(suffix) + 1, Len(line)) = suffix

\* grep -o 'https://[a-z0-9-]*\.trycloudflare\.com' | head -1
firstTunnelUrl(log) ==
  LET urls == SelectSeq(log, LAMBDA line :
                               /\ startsWith(line, "https://")
                               /\ endsWith(line, ".trycloudflare.com"))
  IN  IF urls = <<>> THEN "" ELSE Head(urls)

\* the script goes on without a backend URL
backendMissing_never(url) == FALSE

\* [ -z "$BACKEND_URL" ]
backendMissing(url) == url = ""

restOfTunnel ==
  <<normVars, appVars, mergeVars, archiveVars, pracownikVars, editVars, formInstance>>

TunnelInit ==
  /\ tpc = "start"
  /\ attempt = 0
  /\ BACKEND_URL = ""
  /\ FRONTEND_URL = ""
  /\ REACT_APP_API_URL = ""
  /\ running = {}
  /\ logs = [t \in Tunnels |-> <<>>]
  /\ exitStatus = 0
  /\ warned = FALSE
  /\ NormIdle
  /\ MergeIdle
  /\ ArchiveIdle
  /\ PagesIdle
  /\ PracownikIdle
  /\ EditIdle
  /\ MountIdle

\* docker compose up -d: the services are started, or the command fails and
\* the script goes on
composeUp(services, started) == IF started THEN running \cup services ELSE running

\* docker compose up -d backend tunnel-backend
UpBackend ==
  /\ tpc = "start"
  /\ \E started \in BOOLEAN :
       running' = composeUp({"backend", "tunnel-backend"}, started)
  /\ BACKEND_URL' = ""
  /\ attempt' = 1
  /\ tpc' = "backend_loop"
  /\ UNCHANGED <<FRONTEND_URL, REACT_APP_API_URL, logs, exitStatus, warned, restOfTunnel>>

\* one iteration of the loop that reads the backend tunnel URL from the logs
PollBackend ==
  /\ tpc = "backend_loop"
  /\ LET url == firstTunnelUrl(logs["tunnel-backend"])
     IN  /\ BACKEND_URL' = url
         /\ IF url # "" \/ attempt = Attempts
              THEN tpc' = "backend_check" /\ UNCHANGED attempt
              ELSE attempt' = attempt + 1 /\ UNCHANGED tpc
  /\ UNCHANGED <<FRONTEND_URL, REACT_APP_API_URL, running, logs, exitStatus, warned,
                 restOfTunnel>>

\* if [ -z "$BACKEND_URL" ]; then ... exit 1
ExitWithoutBackend ==
  /\ tpc = "backend_check"
  /\ backendMissing(BACKEND_URL)
  /\ exitStatus' = 1
  /\ tpc' = "exited"
  /\ UNCHANGED <<attempt, BACKEND_URL, FRONTEND_URL, REACT_APP_API_URL, running, logs,
                 warned, restOfTunnel>>

\* REACT_APP_API_URL=$BACKEND_URL docker compose up -d frontend tunnel-frontend
UpFrontend ==
  /\ tpc = "backend_check"
  /\ ~backendMissing(BACKEND_URL)
  /\ REACT_APP_API_URL' = BACKEND_URL
  /\ \E started \in BOOLEAN :
       running' = composeUp({"frontend", "tunnel-frontend"}, started)
  /\ FRONTEND_URL' = ""
  /\ attempt' = 1
  /\ tpc' = "frontend_loop"
  /\ UNCHANGED <<BACKEND_URL, logs, exitStatus, warned, restOfTunnel>>

\* one iteration of the loop that reads the frontend tunnel URL from the logs
PollFrontend ==
  /\ tpc = "frontend_loop"
  /\ LET url == firstTunnelUrl(logs["tunnel-frontend"])
     IN  /\ FRONTEND_URL' = url
         /\ IF url # "" \/ attempt = Attempts
              THEN tpc' = "frontend_check" /\ UNCHANGED attempt
              ELSE attempt' = attempt + 1 /\ UNCHANGED tpc
  /\ UNCHANGED <<BACKEND_URL, REACT_APP_API_URL, running, logs, exitStatus, warned,
                 restOfTunnel>>

\* a missing frontend URL is a warning; the script ends after its last echo
Finish ==
  /\ tpc = "frontend_check"
  /\ warned' = (FRONTEND_URL = "")
  /\ exitStatus' = 0
  /\ tpc' = "exited"
  /\ UNCHANGED <<attempt, BACKEND_URL, FRONTEND_URL, REACT_APP_API_URL, running, logs,
                 restOfTunnel>>

\* a running tunnel container writes a line to its log
TunnelLogs ==
  /\ tpc # "exited"
  /\ \E t \in Tunnels \cap running, line \in LogLines :
       /\ Len(logs[t]) < MaxLogLines
       /\ logs' = [logs EXCEPT ![t] = Append(@, line)]
  /\ UNCHANGED <<tpc, attempt, BACKEND_URL, FRONTEND_URL, REACT_APP_API_URL, running,
                 exitStatus, warned, restOfTunnel>>

TunnelNext ==
  \/ UpBackend
  \/ PollBackend
  \/ ExitWithoutBackend
  \/ UpFrontend
  \/ PollFrontend
  \/ Finish
  \/ TunnelLogs

SpecTunnel == TunnelInit /\ [][TunnelNext]_vars

\* ---------------------------------------------------------------- C22
FrontendServices == {"frontend", "tunnel-frontend"}

\* C22: the frontend and its tunnel run only when a backend tunnel URL was read
\* from the backend tunnel's log and the frontend was configured with it; a
\* script that made its 10 attempts without a backend URL exits with status 1
\* and has started no frontend service; a script that got a backend URL ends
\* with status 0, a missing frontend URL being a warning only
C22_FrontendAfterBackendUrl ==
  /\ (running \cap FrontendServices # {} \/ tpc \in {"frontend_loop", "frontend_check"})
       => /\ BACKEND_URL # ""
          /\ BACKEND_URL = firstTunnelUrl(logs["tunnel-backend"])
          /\ REACT_APP_API_URL = BACKEND_URL
  /\ (tpc = "backend_check" /\ BACKEND_URL = "")
       => (attempt = Attempts /\ running \cap FrontendServices = {})
  /\ (tpc = "exited" /\ BACKEND_URL = "")
       => (exitStatus = 1 /\ running \cap FrontendServices = {} /\ ~warned)
  /\ (tpc = "exited" /\ BACKEND_URL # "")
       => (exitStatus = 0 /\ (warned <=> FRONTEND_URL = ""))
  /\ exitStatus = 1 => (tpc = "exited" /\ BACKEND_URL = "")

\* the script gave up on the backend URL after its attempts
C22_Witness ==
  /\ tpc = "exited"
  /\ exitStatus = 1
  /\ attempt = Attempts
  /\ "tunnel-backend" \in running

\* the frontend runs with the backend URL and its own URL is missing
C22_WitnessWarning ==
  /\ tpc = "exited"
  /\ warned
  /\ FrontendServices \subseteq running
  /\ REACT_APP_API_URL = "https://red-hill.trycloudflare.com"

\* ------------------------------------------------------------ PracownikPage
MaxFolderActions == 3

FolderNames == {"90010112345", "85020254321"}

\* data.items of GET /pracownik/folders
FolderItems == Arr(<<Str("85020254321"), Str("90010112345")>>)

\* data.items of GET /pracownik/folders/{folderName}: the files of the folder,
\* with the generated analysis once there is one
FileItems ==
  {Arr(<<Str("EWYP.pdf")>>), Arr(<<Str("EWYP.pdf"), Str("analiza.docx")>>)}

\* what a fetch resolves to: a body, or a rejection
ListingResponses(items) ==
  {[rejected |-> FALSE, body |-> Obj([success |-> Bool(TRUE), items |-> i])] : i \in items}
    \cup {[rejected |-> FALSE, body |-> Obj([success |-> Bool(FALSE)])],
          [rejected |-> TRUE, body |-> Undefined]}

AnalysisResponses ==
  {[rejected |-> FALSE,
    body |-> Obj([success |-> Bool(TRUE), message |-> Str("analysis done")])],
   [rejected |-> FALSE,
    body |-> Obj([success |-> Bool(FALSE), message |-> Str("analysis failed")])],
   [rejected |-> TRUE, body |-> Undefined]}

\* setAiResult({ success: false, message: 'Błąd połączenia z backendem' })
ConnectionError ==
  Obj([success |-> Bool(FALSE), message |-> Str("Blad polaczenia z backendem")])

restOfPracownik ==
  <<normVars, appVars, mergeVars, archiveVars, tunnelVars, editVars, formInstance>>

\* the page is mounted: fetchFolders() runs
PracownikInit ==
  /\ folders = Arr(<<>>)
  /\ currentFolder = Null
  /\ files = Arr(<<>>)
  /\ pracownikLoading = TRUE
  /\ selectedPdf = Null
  /\ aiResult = Null
  /\ analyzing = FALSE
  /\ fetches = {[kind |-> "folders", folder |-> ""]}
  /\ folderActions = 0
  /\ filesOf = Null
  /\ aiResultOf = Null
  /\ NormIdle
  /\ MergeIdle
  /\ ArchiveIdle
  /\ PagesIdle
  /\ TunnelIdle
  /\ EditIdle
  /\ MountIdle

\* fetchFolders, from the response on
FoldersResponse ==
  \E req \in fetches, response \in ListingResponses({FolderItems}) :
    /\ req.kind = "folders"
    /\ fetches' = fetches \ {req}
    /\ folders' = IF ~response.rejected /\ Truthy(Get(response.body, "success"))
                    THEN Get(response.body, "items") ELSE folders
    /\ pracownikLoading' = FALSE
    /\ UNCHANGED <<currentFolder, files, selectedPdf, aiResult, analyzing, folderActions,
                   filesOf, aiResultOf, restOfPracownik>>

\* the folder cards are rendered when no folder is open and nothing loads
openFolder ==
  \E f \in FolderNames :
    /\ ~pracownikLoading
    /\ ~Truthy(currentFolder)
    /\ \E n \in 1..Len(folders.a) : folders.a[n] = Str(f)
    /\ folderActions < MaxFolderActions
    /\ folderActions' = folderActions + 1
    /\ pracownikLoading' = TRUE
    /\ selectedPdf' = Null
    /\ aiResult' = Null
    /\ aiResultOf' = Null
    /\ fetches' = fetches \cup {[kind |-> "open", folder |-> f]}
    /\ UNCHANGED <<folders, currentFolder, files, analyzing, filesOf, restOfPracownik>>

\* openFolder, from the response on
OpenFolderResponse ==
  \E req \in fetches, response \in ListingResponses(FileItems) :
    /\ req.kind = "open"
    /\ fetches' = fetches \ {req}
    /\ IF ~response.rejected /\ Truthy(Get(response.body, "success"))
         THEN /\ currentFolder' = Str(req.folder)
              /\ files' = Get(response.body, "items")
              /\ filesOf' = Str(req.folder)
         ELSE UNCHANGED <<currentFolder, files, filesOf>>
    /\ pracownikLoading' = FALSE
    /\ UNCHANGED <<folders, selectedPdf, aiResult, analyzing, folderActions, aiResultOf,
                   restOfPracownik>>

\* the back button of the file view
goBack ==
  /\ ~pracownikLoading
  /\ Truthy(currentFolder)
  /\ currentFolder' = Null
  /\ files' = Arr(<<>>)
  /\ filesOf' = Null
  /\ selectedPdf' = Null
  /\ aiResult' = Null
  /\ aiResultOf' = Null
  /\ UNCHANGED <<folders, pracownikLoading, analyzing, fetches, folderActions,
                 restOfPracownik>>

\* a file of the open folder is clicked
viewPdf ==
  \E n \in 1..Len(files.a) :
    /\ ~pracownikLoading
    /\ Truthy(currentFolder)
    /\ selectedPdf = Null
    /\ files.a[n] = Str("EWYP.pdf")
    /\ selectedPdf' = files.a[n]
    /\ UNCHANGED <<folders, currentFolder, files, pracownikLoading, aiResult, analyzing,
                   fetches, folderActions, filesOf, aiResultOf, restOfPracownik>>

closePdfPreview ==
  /\ ~pracownikLoading
  /\ Truthy(selectedPdf)
  /\ Truthy(currentFolder)
  /\ selectedPdf' = Null
  /\ UNCHANGED <<folders, currentFolder, files, pracownikLoading, aiResult, analyzing,
                 fetches, folderActions, filesOf, aiResultOf, restOfPracownik>>

\* the analysis button of the file view, disabled while analyzing; the
\* request and what follows it keep the currentFolder of this call
analyzeWithAI ==
  /\ ~pracownikLoading
  /\ Truthy(currentFolder)
  /\ ~analyzing
  /\ folderActions < MaxFolderActions
  /\ folderActions' = folderActions + 1
  /\ analyzing' = TRUE
  /\ aiResult' = Null
  /\ aiResultOf' = Null
  /\ fetches' = fetches \cup {[kind |-> "analyze", folder |-> currentFolder.s]}
  /\ UNCHANGED <<folders, currentFolder, files, pracownikLoading, selectedPdf, filesOf,
                 restOfPracownik>>

\* analyzeWithAI, from the response of the analysis on
AnalysisResponse ==
  \E req \in fetches, response \in AnalysisResponses :
    /\ req.kind = "analyze"
    /\ aiResultOf' = Str(req.folder)
    /\ IF response.rejected
         THEN /\ aiResult' = ConnectionError
              /\ analyzing' = FALSE
              /\ fetches' = fetches \ {req}
         ELSE /\ aiResult' = response.body
              /\ IF Truthy(Get(response.body, "success"))
                   THEN /\ fetches' = (fetches \ {req})
                                        \cup {[kind |-> "refresh", folder |-> req.folder]}
                        /\ UNCHANGED analyzing
                   ELSE /\ fetches' = fetches \ {req}
                        /\ analyzing' = FALSE
    /\ UNCHANGED <<folders, currentFolder, files, pracownikLoading, selectedPdf,
                   folderActions, filesOf, restOfPracownik>>

\* analyzeWithAI, from the response of the refreshed listing on
RefreshResponse ==
  \E req \in fetches, response \in ListingResponses(FileItems) :
    /\ req.kind = "refresh"
    /\ fetches' = fetches \ {req}
    /\ IF response.rejected
         THEN /\ aiResult' = ConnectionError
              /\ aiResultOf' = Str(req.folder)
              /\ UNCHANGED <<files, filesOf>>
         ELSE /\ IF Truthy(Get(response.body, "success"))
                   THEN /\ files' = Get(response.body, "items")
                        /\ filesOf' = Str(req.folder)
                   ELSE UNCHANGED <<files, filesOf>>
              /\ UNCHANGED <<aiResult, aiResultOf>>
    /\ analyzing' = FALSE
    /\ UNCHANGED <<folders, currentFolder, pracownikLoading, selectedPdf, folderActions,
                   restOfPracownik>>

PracownikNext ==
  \/ FoldersResponse
  \/ openFolder
  \/ OpenFolderResponse
  \/ goBack
  \/ viewPdf
  \/ closePdfPreview
  \/ analyzeWithAI
  \/ AnalysisResponse
  \/ RefreshResponse

SpecPracownik == PracownikInit /\ [][PracownikNext]_vars

\* ---------------------------------------------------------------- C23
FolderShown == Truthy(currentFolder) /\ ~pracownikLoading

\* C23: whenever a folder is shown, files is a listing fetched for that folder
\* and a non-null aiResult is the result of an analysis of that folder
C23_ShownValuesBelongToFolder ==
  FolderShown => /\ filesOf = currentFolder
                 /\ aiResult # Null => aiResultOf = currentFolder

\* ---------------------------------------------------------------- C24
\* a response that reports success and names a generated document
ReportsSuccessWithPdf(response) ==
  /\ ~response.rejected
  /\ ~IsThrow(response.body)
  /\ Get(response.body, "success") = Bool(TRUE)
  /\ Get(Get(response.body, "data"), "pdf_filename").t = "string"
  /\ Get(Get(response.body, "data"), "pdf_filename").s # ""

EditTrees ==
  StartingFormData
    \cup { FormTree(IdentityDocument("A", "A"), "A", "A", Bool(TRUE), "", "", "", "", ws) :
             ws \in WitnessLists }

\* paths of inputs of the EWYP form
FormPaths ==
  { <<"daneOsobyPoszkodowanej", "dokumentTozsamosci", "rodzaj">>,
    <<"adresZamieszkaniaOsobyPoszkodowanej", "ulica">>,
    <<"daneOsobyKtoraZawiadamia", "jestPoszkodowanym">>,
    <<"daneSwiadkowWypadku", "0", "imie">>,
    <<"daneSwiadkowWypadku", "1", "adres", "ulica">>,
    <<"daneSwiadkowWypadku", "1", "adres">> }

\* paths of inputs with an error recorded
ErrorPaths == {p \in FormPaths : Len(p) = 3}

\* fields of the statement form
WyjFields == {"imieNazwisko", "dataWypadku", "czyWypadekPodczasObslugiMaszyn"}

WyjEditTrees ==
  { Obj([k \in WyjFields |->
          CASE k = "imieNazwisko" -> Str(n)
            [] k = "dataWypadku" -> Str(d)
            [] OTHER -> Bool(m)]) :
      n \in FieldValues, d \in FieldValues, m \in BOOLEAN }

\* what an input hands to updateField
EditValues == {Str(""), Str("B"), Bool(FALSE), EmptyWitnessAddress}

\* the value at a path of a tree
RECURSIVE getPath(_, _)
getPath(tree, path) ==
  IF path = <<>> THEN tree ELSE getPath(GetKey(tree, path[1]), Tail(path))

\* every container on the way to the last key of the path exists
RECURSIVE containersExist(_, _)
containersExist(tree, path) ==
  /\ tree.t \in {"object", "array"}
  /\ Len(path) > 1 => containersExist(GetKey(tree, path[1]), Tail(path))

\* fieldErrors: a mapping of keys to messages
ErrorMappings(keys) ==
  { Obj([k \in S |-> Str("warning")]) : S \in {T \in SUBSET keys : Cardinality(T) <= 2} }

restOfEdit ==
  <<normVars, appVars, mergeVars, archiveVars, tunnelVars, pracownikVars, formInstance>>

EditInit ==
  /\ editForm \in {"ewyp", "wyjasnienia"}
  /\ IF editForm = "ewyp"
       THEN /\ editPrev \in EditTrees
            /\ editPath \in {p \in FormPaths : containersExist(editPrev, p)}
            /\ editErrors \in ErrorMappings({join(p) : p \in ErrorPaths})
       ELSE /\ editPrev \in WyjEditTrees
            /\ editPath \in {<<f>> : f \in WyjFields}
            /\ editErrors \in ErrorMappings(WyjFields)
  /\ editValue \in EditValues
  /\ editUpdated = Undefined
  /\ editErrorsNext = Undefined
  /\ epc = "input"
  /\ NormIdle
  /\ MergeIdle
  /\ ArchiveIdle
  /\ PagesIdle
  /\ TunnelIdle
  /\ PracownikIdle
  /\ MountIdle

\* FormPage.updateField(path, value)
UpdateField ==
  /\ epc = "input"
  /\ editForm = "ewyp"
  /\ editUpdated' = updatedFormData(editPrev, editPath, editValue)
  /\ editPrev' = prevAfterUpdateField(editPrev, editPath, editValue)
  /\ editErrorsNext' = clearFieldError(editErrors, join(editPath))
  /\ epc' = "updated"
  /\ UNCHANGED <<editForm, editPath, editValue, editErrors, restOfEdit>>

\* WyjasnieniaPoszkodowanegoFormPage.updateField(field, value)
UpdateFieldWyjasnienia ==
  /\ epc = "input"
  /\ editForm = "wyjasnienia"
  /\ editUpdated' = wyjUpdatedFormData(editPrev, editPath[1], editValue)
  /\ editPrev' = editPrev
  /\ editErrorsNext' = clearFieldError(editErrors, editPath[1])
  /\ epc' = "updated"
  /\ UNCHANGED <<editForm, editPath, editValue, editErrors, restOfEdit>>

EditNext == UpdateField \/ UpdateFieldWyjasnienia

SpecEdit == EditInit /\ [][EditNext]_vars

\* ---------------------------------------------------------------- C25
\* the leaves of a tree with their paths; an empty container is a leaf
RECURSIVE leaves(_, _)
leaves(tree, prefix) ==
  CASE tree.t = "object" /\ Keys(tree) # {} ->
         UNION { leaves(tree.o[k], Append(prefix, k)) : k \in Keys(tree) }
    [] tree.t = "array" /\ tree.a # <<>> ->
         UNION { leaves(tree.a[i], Append(prefix, ToString(i - 1))) : i \in DOMAIN tree.a }
    [] OTHER -> {<<prefix, tree>>}

isPrefix(p, q) == Len(p) <= Len(q) /\ SubSeq(q, 1, Len(p)) = p

\* the leaves of a tree that are neither at nor below the path
Outside(tree, path) == {l \in leaves(tree, <<>>) : ~isPrefix(path, l[1])}

EditedKey == IF editForm = "ewyp" THEN join(editPath) ELSE editPath[1]

SpecAppFair ==
  /\ AppInit
  /\ [][AppNext]_vars
  /\ WF_vars(FormResponse)
  /\ WF_vars(WyjResponse)
  /\ WF_vars(SkanResponse)

\* the form is mounted and its submit button is disabled
FormLoading == route = "/form/ewyp" /\ loading

WyjLoading == route = "/form/wyjasnienia" /\ wyjLoading

\* C27: a form that shows loading = true after a submission shows
\* loading = false again, whatever the outcome of the request, in both forms
C27_LoadingEnds ==
  /\ FormLoading ~> ~FormLoading
  /\ WyjLoading ~> ~WyjLoading

\* a submission of the EWYP form ended with a network error and the form is
\* mounted with loading = false
C27_Witness ==
  /\ route = "/form/ewyp"
  /\ handled.cause = "network"
  /\ ~loading
  /\ formStatus = StatusOf("error", Str("form.error"))

\* -------------------------------------- FormPage, left and opened again
MaxMounts == 2

restOfMounts ==
  <<normVars, mergeVars, archiveVars, tunnelVars, pracownikVars, editVars, skanVars,
    wyjVars, formData, fieldErrors, activeWitnesses, edits, currentRun>>

\* the EWYP form is mounted for the first time
MountInit ==
  /\ PagesIdle
  /\ formInstance = 1
  /\ NormIdle
  /\ MergeIdle
  /\ ArchiveIdle
  /\ TunnelIdle
  /\ PracownikIdle
  /\ EditIdle

\* handleSubmit of the mounted instance up to `await fetch`; the request
\* belongs to the instance whose handler issued it
SubmitMounted ==
  /\ route = "/form/ewyp"
  /\ submitEnabled(loading)
  /\ userActions < MaxUserActions
  /\ userActions' = userActions + 1
  /\ loading' = TRUE
  /\ formStatus' = Null
  /\ validationErrors' = Null
  /\ handled' = NotHandled
  /\ posts' = posts + 1
  /\ inflight' = inflight \cup {[id |-> posts + 1, endpoint |-> "/form",
                                  body |-> buildPayload(formData),
                                  instance |-> formInstance]}
  /\ UNCHANGED <<route, navigatedBy, formInstance, restOfMounts>>

\* handleSubmit from `await fetch` on: the setters act on the instance that
\* issued the request if it is still mounted, navigate acts in any case
MountedResponse ==
  \E req \in inflight, response \in FormResponses :
    LET outcome == formOutcome(response, validationErrors)
    IN  /\ inflight' = inflight \ {req}
        /\ IF route = "/form/ewyp" /\ req.instance = formInstance
             THEN /\ formStatus' = outcome.status
                  /\ validationErrors' = outcome.validationErrors
                  /\ loading' = FALSE
                  /\ handled' = [cause |-> response.cause]
             ELSE UNCHANGED <<formStatus, validationErrors, loading, handled>>
        /\ route' = IF outcome.navigate THEN "/success-pdf" ELSE route
        /\ navigatedBy' = IF outcome.navigate
                             THEN [endpoint |-> "/form", response |-> response]
                             ELSE navigatedBy
        /\ UNCHANGED <<posts, userActions, formInstance, restOfMounts>>

\* the link "Wybor formularzy" of the navigation bar: the form is unmounted
LeaveForm ==
  /\ route = "/form/ewyp"
  /\ route' = "/form"
  /\ UNCHANGED <<formStatus, validationErrors, loading, handled, inflight, posts,
                 userActions, navigatedBy, formInstance, restOfMounts>>

\* handleFillForm('/form/ewyp') of the selection page, also reached from the
\* link of the success page: a new instance of the form is mounted
OpenForm ==
  /\ route \in {"/form", "/success-pdf"}
  /\ formInstance < MaxMounts
  /\ formInstance' = formInstance + 1
  /\ route' = "/form/ewyp"
  /\ formStatus' = Null
  /\ validationErrors' = Null
  /\ loading' = FALSE
  /\ handled' = NotHandled
  /\ navigatedBy' = NoNavigation
  /\ UNCHANGED <<inflight, posts, userActions, restOfMounts>>

MountNext == SubmitMounted \/ MountedResponse \/ LeaveForm \/ OpenForm

SpecMounts == MountInit /\ [][MountNext]_vars

\* ---------------------------------------------------------------- C28
FormRequests == {req \in inflight : req.endpoint = "/form"}

\* C28: at most one POST /form is in flight at any time
C28_OneFormSubmissionInFlight == Cardinality(FormRequests) <= 1

\* C28, per instance of the form: of the requests that one mounted FormPage
\* issued at most one is in flight, and the mounted form shows loading
\* exactly while a request of its own is in flight; a request of an instance
\* that was left may still be in flight beside it
C28_OneSubmissionPerMountedForm ==
  /\ \A r1, r2 \in FormRequests : r1.instance = r2.instance => r1 = r2
  /\ route = "/form/ewyp" =>
       (loading <=> \E req \in FormRequests : req.instance = formInstance)

\* the form that was opened again has a submission in flight and so has the
\* form that was left
C28_Witness ==
  /\ route = "/form/ewyp"
  /\ loading
  /\ Cardinality(FormRequests) = 2

\* ---------------------------------------------------------------- C29
PdfOnly == StatusOf("error", Str("skan.pdf_only"))

\* a step of handleFile on the scan page
HandleFileStep == route = "/skan" /\ route' = "/skan" /\ userActions' # userActions

\* C29: handleFile either takes a PDF, which becomes file and is posted to
\* /skan, or refuses the file: the status is the pdf_only error, no request is
\* issued and file, ocrResult and validationData are what they were; a file
\* that is not a PDF never becomes file and is never posted
C29_NonPdfRejectedLocally ==
  [][/\ HandleFileStep =>
          \/ /\ file'.type = "application/pdf"
             /\ posts' = posts + 1
          \/ /\ status' = PdfOnly
             /\ posts' = posts
             /\ inflight' = inflight
             /\ file' = file
             /\ ocrResult' = ocrResult
             /\ validationData' = validationData
     /\ file'.type \in {"", "application/pdf"}
     /\ \A req \in inflight' : req.endpoint = "/skan" => req.body = Str("scan.pdf")]_vars

\* a file that is not a PDF was refused while the result of an earlier scan
\* is shown, and that result is still there
C29_Witness ==
  /\ route = "/skan"
  /\ status = PdfOnly
  /\ file.type = "application/pdf"
  /\ Truthy(validationData)
  /\ inflight = {}
  /\ posts = 1

\* --------------------------------- buildPayload on trees with falsy values
\* values of a checkbox or of a field that a scan filled in
FalsyLeaves == {Bool(FALSE), Bool(TRUE), Num(0), Str(""), Str("A"), Null}

\* a form tree with the flags of the accident section and of the attachments,
\* a notifier whose flag and name vary, and one witness
FalsyTree(notifierFlag, notifierName, machine, attest, decree, flat, witnessName) ==
  Obj([k \in { "adresZamieszkaniaOsobyPoszkodowanej", "daneOsobyKtoraZawiadamia",
               "informacjaOWypadku", "zalaczniki", "daneSwiadkowWypadku" } |->
    CASE k = "adresZamieszkaniaOsobyPoszkodowanej" ->
           Obj([x \in {"ulica", "numerLokalu"} |-> IF x = "ulica" THEN Str("A") ELSE flat])
      [] k = "daneOsobyKtoraZawiadamia" ->
           Obj([x \in {"jestPoszkodowanym", "imie"} |->
                 IF x = "jestPoszkodowanym" THEN notifierFlag ELSE notifierName])
      [] k = "informacjaOWypadku" ->
           Obj([x \in {"wypadekPodczasObslugiMaszynLubUrzadzen",
                       "maszynaPosiadaAtestLubDeklaracjeZgodnosci"} |->
                 IF x = "wypadekPodczasObslugiMaszynLubUrzadzen" THEN machine ELSE attest])
      [] k = "zalaczniki" -> Obj([x \in {"postanowienieProkuratury"} |-> decree])
      [] OTHER -> Arr(<<WitnessEntry(witnessName, witnessName, "A")>>)])

FalsyTrees ==
  { FalsyTree(nf, nn, m, a, d, f, w) :
      nf \in {Bool(FALSE), Bool(TRUE)}, nn \in {Str(""), Bool(FALSE)},
      m \in FalsyLeaves, a \in {Bool(FALSE), Str("")}, d \in {Bool(FALSE), Null},
      f \in {Num(0), Str("")}, w \in FieldValues }

FalsyInit ==
  /\ data \in FalsyTrees
  /\ cleanedPayload = Undefined
  /\ renormalized = Undefined
  /\ npc = "input"
  /\ PagesIdle
  /\ MergeIdle
  /\ ArchiveIdle
  /\ OthersIdle

SpecFalsy == FalsyInit /\ [][NormNext]_vars

\* ---------------------------------------------------------------- C30
MeaningfulFalsy == {Bool(FALSE), Num(0)}

\* the rules of buildPayload drop what is at the path: the notifier and its
\* addresses when the notifier is the victim, a witness without both names,
\* an identity document without both fields
DroppedByRule(tree, path) ==
  \/ /\ Truthy(Get(Get(tree, "daneOsobyKtoraZawiadamia"), "jestPoszkodowanym"))
     /\ path[1] \in {"daneOsobyKtoraZawiadamia"} \cup NotifierAddressKeys
  \/ /\ path[1] = "daneSwiadkowWypadku"
     /\ Len(path) > 1
     /\ ~witnessFilter(getPath(tree, SubSeq(path, 1, 2)))
  \/ /\ Len(path) > 2
     /\ SubSeq(path, 1, 2) = <<"daneOsobyPoszkodowanej", "dokumentTozsamosci">>
     /\ ~Truthy(getPath(tree, <<"daneOsobyPoszkodowanej", "dokumentTozsamosci", "rodzaj">>))
     /\ ~Truthy(getPath(tree, <<"daneOsobyPoszkodowanej", "dokumentTozsamosci",
                               "seriaINumer">>))

\* the fields of a statement form that its payload has to keep
WyjKept(form) == {k \in Keys(form) : form.o[k] # Str("") /\ form.o[k] # Null}

\* C30: every leaf of the form tree that is false or 0 and that the rules do
\* not drop is in the output of buildPayload at its path with its value; the
\* payload of the statement form has exactly the top-level fields whose value
\* is neither '' nor null, with their values
C30_FalsyValuesKept ==
  /\ npc = "built" =>
       \A l \in leaves(data, <<>>) :
         (l[2] \in MeaningfulFalsy /\ ~DroppedByRule(data, l[1]))
           => getPath(cleanedPayload, l[1]) = l[2]
  /\ \A form \in WyjEditTrees \cup {WyjInitialFormData} :
       /\ Keys(wyjPayload(form)) = WyjKept(form)
       /\ \A k \in WyjKept(form) : Get(wyjPayload(form), k) = Get(form, k)

\* false and 0 are in the payload next to fields that were removed as empty
C30_Witness ==
  /\ npc = "built"
  /\ getPath(data, <<"informacjaOWypadku", "maszynaPosiadaAtestLubDeklaracjeZgodnosci">>)
       = Str("")
  /\ getPath(cleanedPayload, <<"informacjaOWypadku",
                               "wypadekPodczasObslugiMaszynLubUrzadzen">>) = Bool(FALSE)
  /\ getPath(cleanedPayload, <<"adresZamieszkaniaOsobyPoszkodowanej", "numerLokalu">>)
       = Num(0)
  /\ getPath(cleanedPayload, <<"daneOsobyKtoraZawiadamia", "jestPoszkodowanym">>)
       = Bool(FALSE)
  /\ Get(cleanedPayload, "zalaczniki") = Undefined

====
